---- MODULE Spec2Model ----
(***************************************************************************)
(* A model of schema-search: the index life cycle of the orchestrator     *)
(* (metadata cache, graph cache, chunker, embedding cache, lexical index) *)
(* and the retrieve / expand / rerank pipeline of a search.                *)
(*                                                                         *)
(* Text is modelled by what the code measures of it: a line is the         *)
(* sequence of the lengths of its words, single-spaced.  A file on disk is *)
(* either absent or holds one whole value; a value that came from one      *)
(* index() call carries the number of that call in a ghost field "gen".    *)
(***************************************************************************)
EXTENDS Integers, Sequences, FiniteSets, TLC

\* ---------------------------------------------------------------- bounds

\* index() calls that rebuild the embedding cache (or die trying) in one
\* behaviour; calls that take the cache are not counted
MaxGens == 2

\* ------------------------------------------------------------ option type

None == <<>>
Some(x) == <<x>>

\* ------------------------------------------------------------- utilities

RECURSIVE SumSeq(_)
SumSeq(s) == IF s = <<>> THEN 0 ELSE Head(s) + SumSeq(Tail(s))

RECURSIVE Flatten(_)
Flatten(ss) == IF ss = <<>> THEN <<>> ELSE Head(ss) \o Flatten(Tail(ss))

\* ----------------------------------------------------------------- text

\* len(text.split()) + len(text) // 4, for a line given as its word lengths
EstimateTokens(text) ==
    Len(text) + ((SumSeq(text) + (IF Len(text) > 0 THEN Len(text) - 1 ELSE 0)) \div 4)

\* f"Table: {table_name}": the word "Table:" and the name
NameLen(table_name) == IF table_name = "users" THEN 5 ELSE 6
Header(table_name) == <<6, NameLen(table_name)>>

\* --------------------------------------------------------------- chunker

Chunk(table_name, content, chunk_id, token_count) ==
    [table_name |-> table_name, content |-> content,
     chunk_id |-> chunk_id, token_count |-> token_count]

\* The loop of Chunker._chunk_table over lines[1:], then the final flush.
RECURSIVE ChunkLoop(_, _, _, _, _, _, _)
ChunkLoop(table_name, rest, current_chunk_lines, current_tokens, chunk_id, chunks, max_tokens) ==
    IF rest = <<>>
    THEN IF Len(current_chunk_lines) > 1
         THEN Append(chunks, Chunk(table_name, current_chunk_lines, chunk_id, current_tokens))
         ELSE chunks
    ELSE LET line == Head(rest)
             line_tokens == EstimateTokens(line)
         IN IF current_tokens + line_tokens > max_tokens /\ Len(current_chunk_lines) > 1
            THEN ChunkLoop(table_name, Tail(rest),
                           <<Header(table_name), line>>,
                           EstimateTokens(Header(table_name)) + line_tokens,
                           chunk_id + 1,
                           Append(chunks, Chunk(table_name, current_chunk_lines,
                                                chunk_id, current_tokens)),
                           max_tokens)
            ELSE ChunkLoop(table_name, Tail(rest),
                           Append(current_chunk_lines, line),
                           current_tokens + line_tokens,
                           chunk_id, chunks, max_tokens)

\* Chunker._chunk_table on the generated content (its first line is skipped:
\* the header is added by hand)
ChunkTable(table_name, markdown, start_id, max_tokens) ==
    ChunkLoop(table_name, Tail(markdown), <<Header(table_name)>>,
              EstimateTokens(Header(table_name)), start_id, <<>>, max_tokens)

\* ------------------------------------------------- the database's schemas

ColsLine == <<8, 5>>
RelLine == <<7, 3, 5>>
IdxLine == <<8, 9>>
SumLine == <<5, 5, 5>>

TableInfo(name, lines, fks) == [name |-> name, lines |-> lines, fks |-> fks]

\* What MetadataExtractor.extract() returns for the database as it is now:
\* table name -> table info, in the inspector's order.  Three versions of
\* the database; the second has wider tables and a foreign key to a table
\* that is not extracted, the third a chain events -> orders -> users.
Extract(d) ==
    IF d = 1
    THEN << TableInfo("users", <<ColsLine>>, {}),
            TableInfo("orders", <<ColsLine, RelLine>>, {"users"}) >>
    ELSE IF d = 2
    THEN << TableInfo("users", <<ColsLine, ColsLine, IdxLine>>, {}),
            TableInfo("orders", <<ColsLine, RelLine>>, {"users", "audit"}) >>
    ELSE << TableInfo("users", <<ColsLine>>, {}),
            TableInfo("orders", <<ColsLine, RelLine>>, {"users"}),
            TableInfo("events", <<ColsLine>>, {"orders"}) >>

Databases == {1, 2, 3}

\* Chunker._to_markdown: the header line, then the rendered lines
ToMarkdown(table_info) == <<Header(table_info.name)>> \o table_info.lines

\* What the summarizer may answer for one table: a failure (None), or a text
SummaryTexts == { <<SumLine, SumLine, SumLine>> }
LlmOutcomes == {None} \cup { Some(t) : t \in SummaryTexts }

\* the summarizer's failure leaving the table with its header line only
GenerateLlmSummaryHeaderOnly(table_info, outcome) ==
    IF outcome = None
    THEN <<Header(table_info.name)>>
    ELSE <<Header(table_info.name)>> \o outcome[1]

\* Chunker._generate_llm_summary: "Table: name\n" + summary, and the
\* structured rendering when the call fails
GenerateLlmSummary(table_info, outcome) ==
    IF outcome = None
    THEN ToMarkdown(table_info)
    ELSE <<Header(table_info.name)>> \o outcome[1]

\* Chunker.chunk_metadata: the tables in order, chunk ids running on
RECURSIVE ChunkMetadataFrom(_, _, _, _, _, _)
ChunkMetadataFrom(metadata_dict, i, chunk_id, chunks, chunker, llm) ==
    IF i > Len(metadata_dict)
    THEN chunks
    ELSE LET info == metadata_dict[i]
             markdown == IF chunker.use_llm_summary
                         THEN GenerateLlmSummary(info, llm[i])
                         ELSE ToMarkdown(info)
             table_chunks == ChunkTable(info.name, markdown, chunk_id, chunker.max_tokens)
         IN ChunkMetadataFrom(metadata_dict, i + 1, chunk_id + Len(table_chunks),
                              chunks \o table_chunks, chunker, llm)

ChunkMetadata(metadata_dict, chunker, llm) ==
    ChunkMetadataFrom(metadata_dict, 1, 0, <<>>, chunker, llm)

\* ------------------------------------------------------------------ graph

\* GraphBuilder._build_and_cache: a node per table, an edge per foreign key
\* whose target is a node
BuildGraph(schemas) ==
    LET nodes == { schemas[i].name : i \in 1..Len(schemas) }
    IN [nodes |-> nodes,
        edges |-> UNION { { <<schemas[i].name, r>> : r \in schemas[i].fks \cap nodes } :
                          i \in 1..Len(schemas) }]

\* make_table_key: the qualified name of a table
MakeTableKey(schema_name, table_name) == schema_name \o "." \o table_name

\* a build that adds an edge for every foreign key, the edge bringing its
\* target in as a node
BuildFromSchemasEveryForeignKey(schemas) ==
    LET edges == UNION { { <<MakeTableKey(p[1], p[2]), MakeTableKey(fk[1], fk[2])>> :
                             fk \in schemas[p] } : p \in DOMAIN schemas }
    IN [nodes |-> { MakeTableKey(p[1], p[2]) : p \in DOMAIN schemas }
                    \cup { e[2] : e \in edges },
        edges |-> edges]

\* GraphBuilder._build_and_cache up to the dump, over a DBSchema.  schemas
\* maps <<schema name, table name>> to the table's foreign keys, each a
\* pair <<referred_schema, referred_table>>.  A node per table, then an edge
\* per foreign key whose target is a node.
BuildFromSchemas(schemas) ==
    LET nodes == { MakeTableKey(p[1], p[2]) : p \in DOMAIN schemas }
    IN [nodes |-> nodes,
        edges |-> UNION { { <<MakeTableKey(p[1], p[2]), MakeTableKey(fk[1], fk[2])>> :
                              fk \in { f \in schemas[p] :
                                         MakeTableKey(f[1], f[2]) \in nodes } } :
                          p \in DOMAIN schemas }]

\* a file that holds the edges only: every table that declares a foreign key
\* with its successors
PickleEdgeList(graph) ==
    [n \in { e[1] : e \in graph.edges } |->
       { e[2] : e \in { x \in graph.edges : x[1] = n } }]

\* pickle.dump(self.graph): what graph.pkl holds of a graph, every node with
\* its successors; and pickle.load of such a file
Pickle(graph) ==
    [n \in graph.nodes |-> { e[2] : e \in { x \in graph.edges : x[1] = n } }]
Unpickle(file) ==
    [nodes |-> DOMAIN file,
     edges |-> UNION { { <<n, m>> : m \in file[n] } : n \in DOMAIN file }]

\* ---------------------------------------------------------- configuration

MaxTokensChoices == {12, 20}
ModelChoices == {"m1", "m2"}
OverlapChoices == {0, 1}

\* The settings the model moves between: the shipped ones, and those with
\* one field changed.  The summarizer is off in all of them.
BaseConfig ==
    [max_tokens |-> 12, embedding_model |-> "m1",
     use_llm_summary |-> FALSE, overlap_tokens |-> 0]

LlmConfig == [BaseConfig EXCEPT !.use_llm_summary = TRUE]

ConfigChoices ==
    { BaseConfig,
      [BaseConfig EXCEPT !.max_tokens = 20],
      [BaseConfig EXCEPT !.embedding_model = "m2"],
      [BaseConfig EXCEPT !.overlap_tokens = 1] }

\* the fingerprint written to, and compared with, cache_config.json
\* a fingerprint without the embedding model
FingerprintWithoutModel(cfg) ==
    [embedding_model |-> "any", max_tokens |-> cfg.max_tokens,
     use_llm_summary |-> cfg.use_llm_summary]

Fingerprint(cfg) ==
    [use_llm_summary |-> cfg.use_llm_summary,
     max_tokens |-> cfg.max_tokens,
     embedding_model |-> cfg.embedding_model]

\* what a truncated cache_config.json holds
Unreadable == [unreadable |-> TRUE]

\* ------------------------------------------------------------------ state

VARIABLES
    config,     \* the settings dictionary every component reads
    db,         \* which version of the database the engine is connected to
    disk,       \* the cache directory: each file absent (None) or whole
    mem,        \* the fields of the SchemaSearch object and of its components
    gen,        \* ghost: cache rebuilds started so far
    ret,        \* ghost: what the last call did and returned
    hist,       \* ghost: crashed: a process was killed during a rebuild;
                \* succeeded: index() has returned on this object; last: the
                \* settings at the last index() that returned, None once a
                \* later one failed; prev: last, before that index()
    wr,         \* a rebuild in flight between its file writes: None, or the
                \* number of files written
    rd,         \* a second process on the same cache directory: where it
                \* stands in its index(force=False), and its object's fields
    call        \* the search in progress or last returned: its parameters,
                \* the stage it has reached and what each stage produced

\* SchemaSearch.__init__ with its components' constructors.  The chunker
\* copies max_tokens and use_llm_summary at construction; the embedding
\* manager keeps the dictionary and reads it at each call.
Constructor(cfg) ==
    [metadata_dict |-> <<>>,
     graph |-> None,
     chunks |-> <<>>,
     embeddings |-> None,
     chunk_metadata |-> None,
     model |-> None,
     bm25 |-> None,
     ranker_chunks |-> None,
     chunker |-> [max_tokens |-> cfg.max_tokens,
                  use_llm_summary |-> cfg.use_llm_summary]]

EmptyDisk ==
    [metadata |-> None, graph |-> None, emb |-> None, chunkmeta |-> None,
     config |-> None]

\* no search called yet
NoCall ==
    [pc |-> "none", strategy |-> "-", reranker |-> FALSE, hops |-> 0,
     initial_tables |-> {}, initial_results |-> <<>>, expanded |-> {},
     consulted |-> FALSE, rerank_top_k |-> 0, limit |-> 0,
     rerank_chunks |-> <<>>, reranked |-> <<>>, top |-> <<>>, results |-> <<>>]

\* the second process before a call of index(force=False): ghost fields
\* path, mixed_at_check (the two data files were of different rebuilds when
\* it checked the cache) and written_during (a cache file was written
\* between its check and its last read)
ReaderIdle(m) ==
    [pc |-> "idle", mem |-> m, path |-> "-", mixed_at_check |-> FALSE,
     written_during |-> FALSE]

Ret(op, err, force, path, encoded) ==
    [op |-> op, ok |-> (err = "none"), err |-> err, force |-> force,
     path |-> path, encoded |-> encoded]

InitIdx ==
    /\ config = BaseConfig
    /\ db = 1
    /\ disk = EmptyDisk
    /\ mem = Constructor(config)
    /\ gen = 0
    /\ ret = Ret("none", "none", FALSE, "-", 0)
    /\ hist = [crashed |-> FALSE, succeeded |-> FALSE, last |-> None, prev |-> None]
    /\ wr = None
    /\ rd = ReaderIdle(Constructor(config))
    /\ call = NoCall

\* ------------------------------------------------------ embedding manager

\* a validity check that also compares which rebuild wrote the two data files
IsCacheValidSameRebuild(d, cfg) ==
    /\ d.emb # None /\ d.chunkmeta # None /\ d.config # None
    /\ d.config[1] = Fingerprint(cfg)
    /\ d.emb[1].gen = d.chunkmeta[1].gen

\* EmbeddingManager._is_cache_valid: the three files exist, and the stored
\* fingerprint can be read and equals the current one
IsCacheValid(d, cfg) ==
    IF ~(d.emb # None /\ d.chunkmeta # None /\ d.config # None)
    THEN FALSE
    ELSE IF d.config[1] = Unreadable
         THEN FALSE
         ELSE d.config[1] = Fingerprint(cfg)

\* model.encode(texts): one row per chunk, decided by the loaded model and
\* the chunk's content
Encode(model, chunks) ==
    [i \in 1..Len(chunks) |-> [model |-> model, text |-> chunks[i].content]]

\* EmbeddingManager._load_model: loads the configured model once
LoadModel(m, cfg) == IF m.model = None THEN Some(cfg.embedding_model) ELSE m.model

\* The i-th file write of _generate_and_cache by rebuild g: embeddings.npz,
\* chunk_metadata.json, cache_config.json
WriteCacheFile(d, i, rows, chunks, cfg, g) ==
    IF i = 1 THEN [d EXCEPT !.emb = Some([rows |-> rows, gen |-> g])]
    ELSE IF i = 2 THEN [d EXCEPT !.chunkmeta = Some([items |-> chunks, gen |-> g])]
    ELSE [d EXCEPT !.config = Some(Fingerprint(cfg))]

\* The cache files after the first k of the three writes; torn: the write
\* after those was cut short.  Only the fingerprint file is read under a
\* try, so it is the one file modelled with cut content.
WriteCaches(d, rows, chunks, cfg, g, k, torn) ==
    LET d1 == IF k >= 1 THEN WriteCacheFile(d, 1, rows, chunks, cfg, g) ELSE d
        d2 == IF k >= 2 THEN WriteCacheFile(d1, 2, rows, chunks, cfg, g) ELSE d1
    IN IF k >= 3 THEN WriteCacheFile(d2, 3, rows, chunks, cfg, g)
       ELSE IF k = 2 /\ torn THEN [d2 EXCEPT !.config = Some(Unreadable)]
       ELSE d2

\* a load that keeps chunk metadata the object already holds
LoadCacheFileKeepingMetadata(m, d, i) ==
    IF i = 1 THEN [m EXCEPT !.embeddings = d.emb]
    ELSE IF m.chunk_metadata # None THEN m
    ELSE [m EXCEPT !.chunk_metadata = d.chunkmeta]

\* The i-th file read of _load_from_cache: np.load of embeddings.npz into
\* self.embeddings, json.load of chunk_metadata.json into self.chunk_metadata
LoadCacheFile(m, d, i) ==
    IF i = 1 THEN [m EXCEPT !.embeddings = d.emb]
    ELSE [m EXCEPT !.chunk_metadata = d.chunkmeta]

\* EmbeddingManager._load_from_cache
LoadFromCache(m, d) ==
    [mem |-> LoadCacheFile(LoadCacheFile(m, d, 1), d, 2),
     disk |-> d, path |-> "load", encoded |-> 0]

\* EmbeddingManager._generate_and_cache by call g, as far as its first k
\* file writes: the model is loaded, every chunk encoded, the two fields
\* assigned, and then the files written one after the other
GenerateAndCache(m, d, cfg, g, k, torn) ==
    LET model == LoadModel(m, cfg)
        rows == Encode(model[1], m.chunks)
    IN [mem |-> [m EXCEPT !.model = model,
                          !.embeddings = Some([rows |-> rows, gen |-> g]),
                          !.chunk_metadata = Some([items |-> m.chunks, gen |-> g])],
        disk |-> WriteCaches(d, rows, m.chunks, cfg, g, k, torn),
        path |-> "generate", encoded |-> Len(m.chunks)]

\* a load_or_generate that does not look at force
TakesCacheIgnoringForce(d, cfg, force) == IsCacheValid(d, cfg)

\* whether EmbeddingManager.load_or_generate takes the cache
TakesCache(d, cfg, force) == ~force /\ IsCacheValid(d, cfg)

\* EmbeddingManager.load_or_generate, run to its end
LoadOrGenerate(m, d, cfg, force, g) ==
    IF TakesCache(d, cfg, force)
    THEN LoadFromCache(m, d)
    ELSE GenerateAndCache(m, d, cfg, g, 3, FALSE)

\* ----------------------------------------------------------- orchestrator

\* SchemaSearch._load_or_extract_metadata
LoadOrExtractMetadata(force, d, database) ==
    IF ~force /\ d.metadata # None
    THEN [value |-> d.metadata[1], disk |-> d]
    ELSE [value |-> Extract(database),
          disk |-> [d EXCEPT !.metadata = Some(Extract(database))]]

\* GraphBuilder.build
\* GraphBuilder.build from the test of the cache file on; built is the graph
\* _build_and_cache makes of the schemas it is given
BuildOrLoad(built, force, d) ==
    IF ~force /\ d.graph # None
    THEN [graph |-> Unpickle(d.graph[1]), disk |-> d, path |-> "load"]
    ELSE [graph |-> built, disk |-> [d EXCEPT !.graph = Some(Pickle(built))],
          path |-> "build"]

\* GraphBuilder.build as SchemaSearch.index calls it, with the metadata
GraphBuilderBuild(schemas, force, d) == BuildOrLoad(BuildGraph(schemas), force, d)

\* Ranker.build_bm25: the chunks kept, the corpus tokenized
BuildBm25(m) ==
    [m EXCEPT !.ranker_chunks = Some(m.chunks),
              !.bm25 = Some([i \in 1..Len(m.chunks) |-> m.chunks[i].content])]

\* The first three statements of SchemaSearch.index: metadata, graph, chunks
IndexPrefixOf(m, d, force, llm) ==
    LET md == LoadOrExtractMetadata(force, d, db)
        gb == GraphBuilderBuild(md.value, force, md.disk)
        ch == ChunkMetadata(md.value, m.chunker, llm)
    IN [mem |-> [m EXCEPT !.metadata_dict = md.value,
                          !.graph = Some(gb.graph),
                          !.chunks = ch],
        disk |-> gb.disk]

IndexPrefix(force, llm) == IndexPrefixOf(mem, disk, force, llm)

\* the summarizer's answers for one index() call, one per table
LlmChoicesOf(m) ==
    IF m.chunker.use_llm_summary
    THEN [1..Len(Extract(db)) -> LlmOutcomes]
    ELSE { [i \in 1..Len(Extract(db)) |-> None] }

LlmChoices == LlmChoicesOf(mem)

\* no summarizer configured
LlmChoicesNone == [i \in 1..Len(Extract(db)) |-> None]

\* SchemaSearch.index(force) returning normally
IndexOk(force, llm) ==
    /\ LET p == IndexPrefix(force, llm)
           lg == LoadOrGenerate(p.mem, p.disk, config, force, gen + 1)
       IN /\ lg.path = "generate" => gen < MaxGens
          /\ mem' = BuildBm25(lg.mem)
          /\ disk' = lg.disk
          /\ ret' = Ret("index", "none", force, lg.path, lg.encoded)
          /\ gen' = IF lg.path = "generate" THEN gen + 1 ELSE gen
    /\ hist' = [hist EXCEPT !.succeeded = TRUE, !.last = Some(config), !.prev = hist.last]
    /\ UNCHANGED <<config, db>>

\* SchemaSearch.index(force) raising in _load_model: the model cannot be
\* loaded (no model was loaded before, and the cache is not taken)
IndexModelLoadFails(force, llm) ==
    /\ gen < MaxGens
    /\ mem.model = None
    /\ LET p == IndexPrefix(force, llm)
       IN /\ ~TakesCache(p.disk, config, force)
          /\ mem' = p.mem
          /\ disk' = p.disk
    /\ ret' = Ret("index", "model", force, "generate", 0)
    /\ gen' = gen + 1
    /\ hist' = [hist EXCEPT !.last = None]
    /\ UNCHANGED <<config, db>>

\* SchemaSearch.index(force) raising in one of the three file writes of
\* _generate_and_cache, after k of them (an I/O error; the process lives on)
IndexWriteFails(force, llm, k) ==
    /\ gen < MaxGens
    /\ LET p == IndexPrefix(force, llm)
           ga == GenerateAndCache(p.mem, p.disk, config, gen + 1, k, FALSE)
       IN /\ ~TakesCache(p.disk, config, force)
          /\ mem' = ga.mem
          /\ disk' = ga.disk
          /\ ret' = Ret("index", "io", force, "generate", ga.encoded)
    /\ gen' = gen + 1
    /\ hist' = [hist EXCEPT !.last = None]
    /\ UNCHANGED <<config, db>>

\* The process is killed during the writes of _generate_and_cache, after k
\* of them (torn: in the middle of the next); a new process then constructs
\* its SchemaSearch over the same cache directory
IndexCrash(force, llm, k, torn) ==
    /\ gen < MaxGens
    /\ LET p == IndexPrefix(force, llm)
           ga == GenerateAndCache(p.mem, p.disk, config, gen + 1, k, torn)
       IN /\ ~TakesCache(p.disk, config, force)
          /\ disk' = ga.disk
    /\ mem' = Constructor(config)
    /\ ret' = Ret("crash", "killed", force, "generate", 0)
    /\ gen' = gen + 1
    /\ hist' = [hist EXCEPT !.crashed = TRUE, !.succeeded = FALSE, !.last = None]
    /\ UNCHANGED <<config, db>>

\* The process ends and a new one constructs its SchemaSearch
Restart ==
    /\ mem' = Constructor(config)
    /\ ret' = Ret("restart", "none", FALSE, "-", 0)
    /\ hist' = [hist EXCEPT !.succeeded = FALSE]
    /\ UNCHANGED <<config, db, disk, gen>>

\* A setting is changed between two calls
ChangeConfig(field, value) ==
    /\ config[field] # value
    /\ [config EXCEPT ![field] = value] \in ConfigChoices
    /\ config' = [config EXCEPT ![field] = value]
    /\ UNCHANGED <<db, disk, mem, gen, ret, hist>>

\* The database's schema is changed between two calls
ChangeDb(d) ==
    /\ d # db
    /\ db' = d
    /\ UNCHANGED <<config, disk, mem, gen, ret, hist>>

\* a search() that encodes the query before it checks for an index
SearchEncodingFirst ==
    /\ mem' = [mem EXCEPT !.model = LoadModel(mem, config)]
    /\ ret' = Ret("search",
                  IF mem.embeddings = None THEN "no_embeddings"
                  ELSE IF mem.bm25 = None THEN "no_bm25" ELSE "none",
                  FALSE, "-", 0)
    /\ UNCHANGED <<config, db, disk, gen, hist>>

\* SchemaSearch.search(query): the precondition, encode_query (which loads
\* the model when none is loaded), then _initial_ranking, whose Ranker.rank
\* has its own precondition.  The results of a search that passes both are
\* the subject of SpecSearch.
Search ==
    /\ IF mem.embeddings = None
       THEN /\ ret' = Ret("search", "no_embeddings", FALSE, "-", 0)
            /\ mem' = mem
       ELSE /\ mem' = [mem EXCEPT !.model = LoadModel(mem, config)]
            /\ ret' = Ret("search", IF mem.bm25 = None THEN "no_bm25" ELSE "none",
                          FALSE, "-", 0)
    /\ UNCHANGED <<config, db, disk, gen, hist>>

\* Ranker.rank called on the orchestrator's ranker
RankCall ==
    /\ ret' = Ret("rank", IF mem.bm25 = None THEN "no_bm25" ELSE "none", FALSE, "-", 0)
    /\ UNCHANGED <<config, db, disk, mem, gen, hist>>

\* Ranker.get_top_tables_from_chunks called on the orchestrator's ranker
GetTopTablesCall ==
    /\ ret' = Ret("get_top_tables", IF mem.ranker_chunks = None THEN "no_chunks" ELSE "none",
                  FALSE, "-", 0)
    /\ UNCHANGED <<config, db, disk, mem, gen, hist>>

vars == <<config, db, disk, mem, gen, ret, hist, wr, rd, call>>

\* the index life cycle with settings and schema changing and the process
\* killed during a rebuild
NextIdx ==
    /\ \/ \E force \in BOOLEAN, llm \in LlmChoices : IndexOk(force, llm)
       \/ \E force \in BOOLEAN, llm \in LlmChoices : IndexModelLoadFails(force, llm)
       \/ \E force \in BOOLEAN, llm \in LlmChoices, k \in 0..2, torn \in BOOLEAN :
             (torn => k = 2) /\ IndexCrash(force, llm, k, torn)
       \/ Restart
       \/ \E value \in MaxTokensChoices : ChangeConfig("max_tokens", value)
       \/ \E value \in ModelChoices : ChangeConfig("embedding_model", value)
       \/ \E value \in OverlapChoices : ChangeConfig("overlap_tokens", value)
    /\ UNCHANGED <<wr, rd, call>>

Spec == InitIdx /\ [][NextIdx]_vars

\* the calls an application makes on one object, index() failing or not, the
\* summarizer on or off
InitCalls ==
    /\ config \in {BaseConfig, LlmConfig}
    /\ db = 1
    /\ disk = EmptyDisk
    /\ mem = Constructor(config)
    /\ gen = 0
    /\ ret = Ret("none", "none", FALSE, "-", 0)
    /\ hist = [crashed |-> FALSE, succeeded |-> FALSE, last |-> None, prev |-> None]
    /\ wr = None
    /\ rd = ReaderIdle(Constructor(config))
    /\ call = NoCall

NextCalls ==
    /\ \/ \E force \in BOOLEAN, llm \in LlmChoices : IndexOk(force, llm)
       \/ \E force \in BOOLEAN, llm \in LlmChoices : IndexModelLoadFails(force, llm)
       \/ \E force \in BOOLEAN, llm \in LlmChoices, k \in 0..2 : IndexWriteFails(force, llm, k)
       \/ Restart
       \/ Search
       \/ RankCall
       \/ GetTopTablesCall
    /\ UNCHANGED <<wr, rd, call>>

SpecCalls == InitCalls /\ [][NextCalls]_vars

\* ------------------------------------- two processes on one cache directory

\* The writer's index(force=True) up to the end of model.encode: metadata and
\* graph rebuilt and written, chunks made, every chunk encoded, the two fields
\* assigned; the three cache files are still to be written
W_Begin(llm) ==
    /\ wr = None
    /\ gen < MaxGens
    /\ LET p == IndexPrefix(TRUE, llm)
           ga == GenerateAndCache(p.mem, p.disk, config, gen + 1, 0, FALSE)
       IN /\ mem' = ga.mem
          /\ disk' = ga.disk
          /\ ret' = Ret("index", "running", TRUE, "generate", ga.encoded)
    /\ gen' = gen + 1
    /\ wr' = Some(0)
    /\ UNCHANGED <<config, db, hist, rd>>

\* The writer's next file write in _generate_and_cache
W_Write ==
    /\ wr # None
    /\ wr[1] < 3
    /\ disk' = WriteCacheFile(disk, wr[1] + 1, mem.embeddings[1].rows, mem.chunks,
                              config, mem.embeddings[1].gen)
    /\ wr' = Some(wr[1] + 1)
    /\ rd' = IF rd.pc \in {"load_emb", "load_meta"}
             THEN [rd EXCEPT !.written_during = TRUE]
             ELSE rd
    /\ UNCHANGED <<config, db, mem, gen, ret, hist>>

\* The writer's index() returns: build_bm25 after the third write
W_Finish ==
    /\ wr = Some(3)
    /\ mem' = BuildBm25(mem)
    /\ ret' = Ret("index", "none", TRUE, "generate", Len(mem.chunks))
    /\ hist' = [hist EXCEPT !.succeeded = TRUE, !.last = Some(config), !.prev = hist.last]
    /\ wr' = None
    /\ UNCHANGED <<config, db, disk, gen, rd>>

\* The reader's index(force=False) up to load_or_generate: metadata and graph
\* read from their caches (or built and written when absent), chunks made
R_Begin(llm) ==
    /\ rd.pc = "idle"
    /\ LET p == IndexPrefixOf(rd.mem, disk, FALSE, llm)
       IN /\ rd' = [ReaderIdle(p.mem) EXCEPT !.pc = "check"]
          /\ disk' = p.disk
    /\ UNCHANGED <<config, db, mem, gen, ret, hist, wr>>

\* The reader's _is_cache_valid
R_Check ==
    /\ rd.pc = "check"
    /\ rd' = IF TakesCache(disk, config, FALSE)
             THEN [rd EXCEPT !.pc = "load_emb", !.path = "load",
                             !.mixed_at_check = (disk.emb[1].gen # disk.chunkmeta[1].gen)]
             ELSE [rd EXCEPT !.pc = "generate", !.path = "generate"]
    /\ UNCHANGED <<config, db, disk, mem, gen, ret, hist, wr>>

\* The reader's np.load of the embeddings file
R_LoadEmb ==
    /\ rd.pc = "load_emb"
    /\ rd' = [rd EXCEPT !.pc = "load_meta", !.mem = LoadCacheFile(rd.mem, disk, 1)]
    /\ UNCHANGED <<config, db, disk, mem, gen, ret, hist, wr>>

\* The reader's json.load of the chunk metadata file, and the rest of its
\* index()
R_LoadMeta ==
    /\ rd.pc = "load_meta"
    /\ rd' = [rd EXCEPT !.pc = "done",
                        !.mem = BuildBm25(LoadCacheFile(rd.mem, disk, 2))]
    /\ UNCHANGED <<config, db, disk, mem, gen, ret, hist, wr>>

\* The reader's _generate_and_cache when it found no valid cache, taken in
\* one step, and the rest of its index()
R_Generate ==
    /\ rd.pc = "generate"
    /\ gen < MaxGens
    /\ LET ga == GenerateAndCache(rd.mem, disk, config, gen + 1, 3, FALSE)
       IN /\ rd' = [rd EXCEPT !.pc = "done", !.mem = BuildBm25(ga.mem)]
          /\ disk' = ga.disk
    /\ gen' = gen + 1
    /\ UNCHANGED <<config, db, mem, ret, hist, wr>>

\* The reader's index(force=False) has returned; it may call it again
R_Return ==
    /\ rd.pc = "done"
    /\ rd' = ReaderIdle(rd.mem)
    /\ UNCHANGED <<config, db, disk, mem, gen, ret, hist, wr>>

NextConc ==
    /\ \/ \E llm \in LlmChoices : W_Begin(llm)
       \/ W_Write
       \/ W_Finish
       \/ \E llm \in LlmChoicesOf(rd.mem) : R_Begin(llm)
       \/ R_Check
       \/ R_LoadEmb
       \/ R_LoadMeta
       \/ R_Generate
       \/ R_Return
       \/ \E d \in Databases : ChangeDb(d) /\ UNCHANGED <<wr, rd>>
    /\ UNCHANGED call

SpecConc == InitIdx /\ [][NextConc]_vars

\* ------------------------------------------------------------------ search

MaxScore == 1       \* scores are whole numbers 0..MaxScore
MaxHops == 2        \* graph_expand_hops, hops: 0..MaxHops
MaxTopK == 2        \* initial_top_k, rerank_top_k: 1..MaxTopK
MaxLimit == 2       \* limit: 1..MaxLimit

Min(a, b) == IF a < b THEN a ELSE b
MaxOf(S) == CHOOSE x \in S : \A y \in S : y <= x

\* Python's seq[:k] for k >= 0
Prefix(seq, k) == SubSeq(seq, 1, Min(k, Len(seq)))

\* the tables reached from the tables of S along exactly k edges of E
RECURSIVE ReachFrontier(_, _, _)
ReachFrontier(E, S, k) ==
    IF k = 0 THEN S
    ELSE ReachFrontier(E, { e[2] : e \in { x \in E : x[1] \in S } }, k - 1)

\* the tables reached from the tables of S along at most k edges of E
RECURSIVE Reach(_, _, _)
Reach(E, S, k) ==
    IF k = 0 THEN S
    ELSE Reach(E, S \cup { e[2] : e \in { x \in E : x[1] \in S } }, k - 1)

\* neighbors along the foreign keys the table declares only
GetNeighborsForward(graph, qualified_table, hops) ==
    IF qualified_table \notin graph.nodes
    THEN {}
    ELSE Reach(graph.edges, {qualified_table}, hops) \ {qualified_table}

\* neighbors with the queried table left in
GetNeighborsKeepingSelf(graph, qualified_table, hops) ==
    IF qualified_table \notin graph.nodes
    THEN {}
    ELSE Reach(graph.edges, {qualified_table}, hops)
           \cup Reach({ <<e[2], e[1]>> : e \in graph.edges }, {qualified_table}, hops)

\* neighbors whose backward search stops after one edge
GetNeighborsBackwardOnce(graph, qualified_table, hops) ==
    IF qualified_table \notin graph.nodes
    THEN {}
    ELSE (Reach(graph.edges, {qualified_table}, hops)
            \cup Reach({ <<e[2], e[1]>> : e \in graph.edges }, {qualified_table},
                       IF hops > 1 THEN 1 ELSE hops)) \ {qualified_table}

\* GraphBuilder.get_neighbors: forward within hops, backward within hops on
\* the reversed graph, the table itself discarded; nothing for a table that
\* is not a node
GetNeighbors(graph, qualified_table, hops) ==
    IF qualified_table \notin graph.nodes
    THEN {}
    ELSE LET forward == Reach(graph.edges, {qualified_table}, hops)
             backward == Reach({ <<e[2], e[1]>> : e \in graph.edges },
                               {qualified_table}, hops)
         IN (forward \cup backward) \ {qualified_table}

\* the orders in which a set may be iterated
RECURSIVE Iterations(_)
Iterations(S) ==
    IF S = {} THEN { <<>> }
    ELSE UNION { { <<x>> \o q : q \in Iterations(S \ {x}) } : x \in S }

\* scores.argsort()[::-1] paired with the scores: every chunk position once,
\* by descending score, from score level down; the order among equal scores
\* is the sort's own
RECURSIVE RankedFrom(_, _)
RankedFrom(scores, level) ==
    IF level < 0 THEN { <<>> }
    ELSE { [i \in 1..Len(q) |-> [idx |-> q[i], score |-> level]] \o rest :
             q \in Iterations({ i \in 1..Len(scores) : scores[i] = level }),
             rest \in RankedFrom(scores, level - 1) }

\* the largest score of a sequence of scores, or of scored items
TopScore(scores) == MaxOf({ scores[i] : i \in 1..Len(scores) } \cup {0})
TopItemScore(items) == MaxOf({ items[i].score : i \in 1..Len(items) } \cup {0})

RankedLists(scores) == RankedFrom(scores, TopScore(scores))

\* list.sort(key=score, reverse=True) and sorted(..., reverse=True): by
\* descending score, equal scores in their original order
RECURSIVE SortDesc(_, _)
SortDesc(items, level) ==
    IF level < 0 THEN <<>>
    ELSE SelectSeq(items, LAMBDA x : x.score = level) \o SortDesc(items, level - 1)

\* the distinct elements of a sequence, in the order of their first occurrence
RECURSIVE Distinct(_)
Distinct(seq) ==
    IF seq = <<>> THEN <<>>
    ELSE <<Head(seq)>> \o Distinct(SelectSeq(Tail(seq), LAMBDA x : x # Head(seq)))

\* Ranker.get_top_tables_from_chunks.  tables[i] is the table of self.chunks[i].
\* A table's chunk indices are collected in ranked order; its score is the
\* maximum of ranked_chunks[idx][1] over its chunk indices idx, the ranked
\* list indexed by chunk index; the top_k tables by that score are returned
\* with their chunk indices.
GetTopTablesFromChunks(tables, ranked_chunks, top_k) ==
    LET idxs == [i \in 1..Len(ranked_chunks) |-> ranked_chunks[i].idx]
        names == Distinct([i \in 1..Len(idxs) |-> tables[idxs[i]]])
        entry(t) ==
            LET chunk_indices == SelectSeq(idxs, LAMBDA idx : tables[idx] = t)
            IN [table |-> t, chunk_indices |-> chunk_indices,
                score |-> MaxOf({ ranked_chunks[chunk_indices[i]].score :
                                    i \in 1..Len(chunk_indices) })]
        entries == [i \in 1..Len(names) |-> entry(names[i])]
        top_tables == Prefix(SortDesc(entries, TopItemScore(entries)), top_k)
    IN [i \in 1..Len(top_tables) |->
          [table |-> top_tables[i].table, chunk_indices |-> top_tables[i].chunk_indices]]

\* the positions of the chunks of table t, ascending, from position i on
RECURSIVE IndicesOf(_, _, _)
IndicesOf(chunks, t, i) ==
    IF i > Len(chunks) THEN <<>>
    ELSE (IF chunks[i].table_name = t THEN <<i>> ELSE <<>>) \o IndicesOf(chunks, t, i + 1)

\* rerank_chunk_indices of _rerank: the chunks of the expanded tables, table
\* by table in the iteration order of the set
RECURSIVE RerankChunkIndices(_, _)
RerankChunkIndices(chunks, order) ==
    IF order = <<>> THEN <<>>
    ELSE IndicesOf(chunks, Head(order), 1) \o RerankChunkIndices(chunks, Tail(order))

\* SchemaSearch._expand_graph: get_neighbors is called for every initial table
ExpandGraph(graph, initial_tables, hops) ==
    [tables |-> initial_tables \cup
                  UNION { GetNeighbors(graph, t, hops) : t \in initial_tables },
     consulted |-> initial_tables # {}]

\* SemanticSearchStrategy._expand_graph: returns early when hops is 0
SemanticExpandGraph(graph, initial_tables, hops) ==
    IF hops = 0
    THEN [tables |-> initial_tables, consulted |-> FALSE]
    ELSE [tables |-> initial_tables \cup
                       UNION { GetNeighbors(graph, t, hops) : t \in initial_tables },
          consulted |-> initial_tables # {}]

\* a result item whose related tables are those of at most one hop
ResultItemOneHop(table, score, matched, graph, hops) ==
    [table |-> table, score |-> score, matched |-> matched,
     related |-> GetNeighbors(graph, table, Min(hops, 1))]

\* one SearchResultItem; matched holds the positions of the matched chunks in
\* the chunk sequence, standing for their contents
ResultItem(table, score, matched, graph, hops) ==
    [table |-> table, score |-> score, matched |-> matched,
     related |-> GetNeighbors(graph, table, hops)]

\* The result list of SchemaSearch._rerank: a table's score looked up as
\* reranked[idx][1] for its chunk indices idx, no limit applied
RerankResults(rerank_chunk_indices, reranked, final_map, graph, hops) ==
    SortDesc([i \in 1..Len(final_map) |->
                ResultItem(final_map[i].table,
                           MaxOf({ reranked[final_map[i].chunk_indices[j]].score :
                                     j \in 1..Len(final_map[i].chunk_indices) }),
                           [j \in 1..Len(final_map[i].chunk_indices) |->
                              rerank_chunk_indices[final_map[i].chunk_indices[j]]],
                           graph, hops)],
             TopItemScore(reranked))

\* a semantic rerank that returns every table it kept
SemanticRerankResultsNoLimit(rerank_chunk_indices, reranked, final_map, graph, hops, limit) ==
    RerankResults(rerank_chunk_indices, reranked, final_map, graph, hops)

\* The result list of SemanticSearchStrategy._rerank: a table's score looked
\* up in chunk_idx_to_score, the sorted list cut to limit
SemanticRerankResults(rerank_chunk_indices, reranked, final_map, graph, hops, limit) ==
    LET chunk_idx_to_score(idx) ==
            (CHOOSE e \in { reranked[i] : i \in 1..Len(reranked) } : e.idx = idx).score
    IN Prefix(SortDesc([i \in 1..Len(final_map) |->
                          ResultItem(final_map[i].table,
                                     MaxOf({ chunk_idx_to_score(final_map[i].chunk_indices[j]) :
                                               j \in 1..Len(final_map[i].chunk_indices) }),
                                     [j \in 1..Len(final_map[i].chunk_indices) |->
                                        rerank_chunk_indices[final_map[i].chunk_indices[j]]],
                                     graph, hops)],
                       TopItemScore(reranked)),
              limit)

\* BM25SearchStrategy._initial_ranking and HybridSearchStrategy._initial_ranking
\* from the strategy's scores on: one item per chunk among the first
\* initial_top_k of the ranking
InitialResults(chunks, ranked, initial_top_k, graph, hops) ==
    [i \in 1..Min(initial_top_k, Len(ranked)) |->
       ResultItem(chunks[ranked[i].idx].table_name, ranked[i].score, <<ranked[i].idx>>,
                  graph, hops)]

\* initial_chunks of BaseSearchStrategy.search: for every initial result the
\* first chunk of its table
InitialChunks(chunks, initial_results) ==
    [i \in 1..Len(initial_results) |-> Head(IndicesOf(chunks, initial_results[i].table, 1))]

\* BaseSearchStrategy.search after reranker.rank: an item per entry among the
\* first rerank_top_k of the ranking, the list cut to limit
BaseRerankResults(chunks, initial_chunks, ranked, rerank_top_k, graph, hops, limit) ==
    Prefix([i \in 1..Min(rerank_top_k, Len(ranked)) |->
              ResultItem(chunks[initial_chunks[ranked[i].idx]].table_name, ranked[i].score,
                         <<initial_chunks[ranked[i].idx]>>, graph, hops)],
           limit)

ScoreVectors(n) == [1..n -> 0..MaxScore]

GraphSearchStrategies == {"orchestrator", "semantic"}
BaseSearchStrategies == {"bm25", "hybrid"}

\* The retrieve stage.  "orchestrator": SchemaSearch.search up to
\* _initial_ranking, whose Ranker.rank scores every chunk; "semantic":
\* SemanticSearchStrategy._initial_ranking; "bm25", "hybrid":
\* BaseSearchStrategy.search up to the strategy's _initial_ranking.  scores
\* are the strategy's scores of the chunks for the query, ranked their
\* descending order.  The two graph strategies always have a reranker.
Retrieve(strategy, reranker, hops, initial_top_k) ==
    /\ call.pc = "none"
    /\ strategy \in GraphSearchStrategies => reranker
    /\ \E scores \in ScoreVectors(Len(mem.chunks)) :
         \E ranked \in RankedLists(scores) :
            call' = [NoCall EXCEPT
                  !.pc = "retrieved",
                  !.strategy = strategy,
                  !.reranker = reranker,
                  !.hops = hops,
                  !.initial_tables =
                      { mem.chunks[ranked[i].idx].table_name :
                          i \in 1..Min(initial_top_k, Len(ranked)) },
                  !.initial_results =
                      IF strategy \in BaseSearchStrategies
                      THEN InitialResults(mem.chunks, ranked, initial_top_k, mem.graph[1], hops)
                      ELSE <<>>]
    /\ UNCHANGED <<config, db, disk, mem, gen, ret, hist, wr, rd>>

\* The expand stage of SchemaSearch.search and SemanticSearchStrategy.search
Expand ==
    /\ call.pc = "retrieved"
    /\ call.strategy \in GraphSearchStrategies
    /\ LET ex == IF call.strategy = "orchestrator"
                 THEN ExpandGraph(mem.graph[1], call.initial_tables, call.hops)
                 ELSE SemanticExpandGraph(mem.graph[1], call.initial_tables, call.hops)
       IN call' = [call EXCEPT !.pc = "expanded", !.expanded = ex.tables,
                               !.consulted = ex.consulted]
    /\ UNCHANGED <<config, db, disk, mem, gen, ret, hist, wr, rd>>

\* The rerank stage of SchemaSearch.search (_rerank) and of
\* SemanticSearchStrategy.search (_rerank); rerank_top_k and limit are first
\* read here, and SchemaSearch.search has no limit (0 stands for none).
\* order is the iteration order of the expanded set, rescores the reranker's
\* scores of the chunks it was built over.
Rerank(rerank_top_k, limit) ==
    /\ call.pc = "expanded"
    /\ call.strategy = "orchestrator" <=> limit = 0
    /\ \E order \in Iterations(call.expanded) :
         LET rerank_chunk_indices == RerankChunkIndices(mem.chunks, order)
             tables == [i \in 1..Len(rerank_chunk_indices) |->
                          mem.chunks[rerank_chunk_indices[i]].table_name]
         IN \E rescores \in ScoreVectors(Len(rerank_chunk_indices)) :
              \E reranked \in RankedLists(rescores) :
                 LET final_map == GetTopTablesFromChunks(tables, reranked, rerank_top_k)
                 IN call' = [call EXCEPT
                      !.pc = "returned",
                      !.rerank_top_k = rerank_top_k,
                      !.limit = limit,
                      !.rerank_chunks = rerank_chunk_indices,
                      !.reranked = reranked,
                      !.top = final_map,
                      !.results =
                          IF call.strategy = "orchestrator"
                          THEN RerankResults(rerank_chunk_indices, reranked, final_map,
                                             mem.graph[1], call.hops)
                          ELSE SemanticRerankResults(rerank_chunk_indices, reranked,
                                                     final_map, mem.graph[1], call.hops,
                                                     limit)]
    /\ UNCHANGED <<config, db, disk, mem, gen, ret, hist, wr, rd>>

\* BaseSearchStrategy.search with no reranker: the initial results cut to limit
BaseReturn(limit) ==
    /\ call.pc = "retrieved"
    /\ call.strategy \in BaseSearchStrategies
    /\ ~call.reranker
    /\ call' = [call EXCEPT !.pc = "returned", !.limit = limit,
                            !.results = Prefix(call.initial_results, limit)]
    /\ UNCHANGED <<config, db, disk, mem, gen, ret, hist, wr, rd>>

\* BaseSearchStrategy.search with a reranker: the reranker is built over
\* initial_chunks and ranks them; rescores are its scores
BaseRerank(rerank_top_k, limit) ==
    /\ call.pc = "retrieved"
    /\ call.strategy \in BaseSearchStrategies
    /\ call.reranker
    /\ LET initial_chunks == InitialChunks(mem.chunks, call.initial_results)
       IN \E rescores \in ScoreVectors(Len(initial_chunks)) :
            \E reranked \in RankedLists(rescores) :
               \* the reranker scores a chunk by its content
               /\ \A i, j \in 1..Len(initial_chunks) :
                     initial_chunks[i] = initial_chunks[j] => rescores[i] = rescores[j]
               /\ call' = [call EXCEPT
                        !.pc = "returned",
                        !.rerank_top_k = rerank_top_k,
                        !.limit = limit,
                        !.rerank_chunks = initial_chunks,
                        !.reranked = reranked,
                        !.results = BaseRerankResults(mem.chunks, initial_chunks, reranked,
                                                      rerank_top_k, mem.graph[1], call.hops,
                                                      limit)]
    /\ UNCHANGED <<config, db, disk, mem, gen, ret, hist, wr, rd>>

\* the database versions searched: two tables, and a chain of three
SearchDatabases == {1, 3}

\* an object on which index(force=True) has returned, over an empty cache
\* directory, for one of these database versions
InitSearch ==
    /\ config = BaseConfig
    /\ db \in SearchDatabases
    /\ LET p == IndexPrefixOf(Constructor(config), EmptyDisk, TRUE, LlmChoicesNone)
           lg == LoadOrGenerate(p.mem, p.disk, config, TRUE, 1)
       IN /\ mem = BuildBm25(lg.mem)
          /\ disk = lg.disk
          /\ ret = Ret("index", "none", TRUE, lg.path, lg.encoded)
    /\ gen = 1
    /\ hist = [crashed |-> FALSE, succeeded |-> TRUE, last |-> Some(config), prev |-> None]
    /\ wr = None
    /\ rd = ReaderIdle(Constructor(config))
    /\ call = NoCall

\* the strategies searched with.  BM25SearchStrategy and HybridSearchStrategy
\* run the same BaseSearchStrategy.search and differ only in the scores of
\* their _initial_ranking, which are free in Retrieve: the searches of one
\* are the searches of the other, and one of the two is explored
SearchedStrategies == GraphSearchStrategies \cup {"bm25"}

NextSearch ==
    \/ \E strategy \in SearchedStrategies,
          reranker \in BOOLEAN, hops \in 0..MaxHops, initial_top_k \in 1..MaxTopK :
          Retrieve(strategy, reranker, hops, initial_top_k)
    \/ Expand
    \/ \E rerank_top_k \in 1..MaxTopK, limit \in 0..MaxLimit : Rerank(rerank_top_k, limit)
    \/ \E limit \in 1..MaxLimit : BaseReturn(limit)
    \/ \E rerank_top_k \in 1..MaxTopK, limit \in 1..MaxLimit : BaseRerank(rerank_top_k, limit)

SpecSearch == InitSearch /\ [][NextSearch]_vars

\* ------------------------------- two searches of one query on one index

MaxBm25 == 2        \* BM25 scores of a chunk for the query: 0..MaxBm25

RECURSIVE Factorial(_)
Factorial(n) == IF n <= 1 THEN 1 ELSE n * Factorial(n - 1)

\* combined scores are counted in units of 1/NormScale, in which every
\* quotient of two BM25 scores is a whole number
NormScale == Factorial(MaxBm25)

\* what a query is to the ranker: per chunk of the index the similarity of
\* the chunk's embedding to the query embedding and the BM25 score of the
\* chunk for the query's tokens
Queries(n) == [emb : [1..n -> 0..MaxScore], bm25 : [1..n -> 0..MaxBm25]]

\* config["search"]["embedding_weight"] and ["bm25_weight"]
WeightChoices ==
    { [embedding_weight |-> 1, bm25_weight |-> 1],
      [embedding_weight |-> 0, bm25_weight |-> 1] }

\* Ranker.rank up to combined_scores, for a ranker built over the chunks at
\* the positions idxs: the BM25 scores are divided by the largest BM25 score
\* among those chunks (the 1e-8 added to the divisor is left out; all scores
\* 0 give 0) and blended with the embedding scores
RankScores(q, w, idxs) ==
    LET max_bm25 == MaxOf({ q.bm25[idxs[i]] : i \in 1..Len(idxs) } \cup {0})
        bm25_scores_norm(i) ==
            IF max_bm25 = 0 THEN 0 ELSE (q.bm25[idxs[i]] * NormScale) \div max_bm25
    IN [i \in 1..Len(idxs) |->
          w.embedding_weight * q.emb[idxs[i]] * NormScale
            + w.bm25_weight * bm25_scores_norm(i)]

\* SchemaSearch.search after the embeddings check: every list of results it
\* can return for the query, over the tie orders of the two rankings and the
\* iteration order of the expanded set
SearchOutcomes(chunks, graph, q, w, hops, initial_top_k, rerank_top_k) ==
    LET all == [i \in 1..Len(chunks) |-> i]
        initial(ranked) ==
            { chunks[ranked[i].idx].table_name : i \in 1..Min(initial_top_k, Len(ranked)) }
        expanded(ranked) == ExpandGraph(graph, initial(ranked), hops).tables
        outcome(ranked, order, reranked) ==
            LET rerank_chunk_indices == RerankChunkIndices(chunks, order)
                tables == [i \in 1..Len(rerank_chunk_indices) |->
                             chunks[rerank_chunk_indices[i]].table_name]
                final_map == GetTopTablesFromChunks(tables, reranked, rerank_top_k)
            IN [initial_tables |-> initial(ranked),
                expanded |-> expanded(ranked),
                rerank_chunks |-> rerank_chunk_indices,
                reranked |-> reranked,
                top |-> final_map,
                results |-> RerankResults(rerank_chunk_indices, reranked, final_map,
                                          graph, hops)]
    IN UNION { UNION { { outcome(ranked, order, reranked) :
                           reranked \in RankedLists(
                               RankScores(q, w, RerankChunkIndices(chunks, order))) } :
                       order \in Iterations(expanded(ranked)) } :
               ranked \in RankedLists(RankScores(q, w, all)) }

\* search(query) on the indexed object, the settings of config["search"]
\* being w, hops, initial_top_k and rerank_top_k; what it was called with and
\* what it returned is kept
FirstSearch(w, hops, initial_top_k, rerank_top_k) ==
    /\ ret.op = "index"
    /\ \E q \in Queries(Len(mem.chunks)) :
       \E out \in SearchOutcomes(mem.chunks, mem.graph[1], q, w, hops,
                                 initial_top_k, rerank_top_k) :
         ret' = [op |-> "search", ok |-> TRUE, err |-> "none", query |-> q,
                 weights |-> w, hops |-> hops, initial_top_k |-> initial_top_k,
                 rerank_top_k |-> rerank_top_k, results |-> out.results]
    /\ UNCHANGED <<config, db, disk, mem, gen, hist, wr, rd, call>>

\* search(query) again with the same query on the same object, after only
\* config["search"]["graph_expand_hops"] was set to a larger value
SecondSearch(hops) ==
    /\ ret.op = "search"
    /\ call.pc = "none"
    /\ hops > ret.hops
    /\ \E out \in SearchOutcomes(mem.chunks, mem.graph[1], ret.query, ret.weights, hops,
                                 ret.initial_top_k, ret.rerank_top_k) :
         call' = [NoCall EXCEPT
                  !.pc = "returned", !.strategy = "orchestrator", !.reranker = TRUE,
                  !.hops = hops, !.initial_tables = out.initial_tables,
                  !.expanded = out.expanded, !.consulted = out.initial_tables # {},
                  !.rerank_top_k = ret.rerank_top_k,
                  !.rerank_chunks = out.rerank_chunks, !.reranked = out.reranked,
                  !.top = out.top, !.results = out.results]
    /\ UNCHANGED <<config, db, disk, mem, gen, ret, hist, wr, rd>>

\* the index searched twice: users and orders
InitHops == InitSearch /\ db = 1

NextHops ==
    \/ \E w \in WeightChoices, hops \in 0..MaxHops,
          initial_top_k \in 1..MaxTopK, rerank_top_k \in 1..MaxTopK :
          FirstSearch(w, hops, initial_top_k, rerank_top_k)
    \/ \E hops \in 0..MaxHops : SecondSearch(hops)

SpecHops == InitHops /\ [][NextHops]_vars

\* ------------------------------------------------------ the graph builder

MaxFks == 1         \* foreign keys declared by one table: 0..MaxFks

\* the tables a DBSchema may hold, and the tables a foreign key may refer
\* to: those, and one that is in no DBSchema
TableUniverse == { <<"s", "a">>, <<"s", "b">>, <<"t", "a">> }
RefUniverse == TableUniverse \cup { <<"t", "b">> }

FkChoices == { F \in SUBSET RefUniverse : Cardinality(F) <= MaxFks }
DBSchemas == UNION { [P -> FkChoices] : P \in SUBSET TableUniverse }

\* the names get_neighbors is asked about
QueryNames == { MakeTableKey(p[1], p[2]) : p \in RefUniverse }

\* GraphBuilder.build(schemas, force), the first build of a GraphBuilder
\* object (build does not read self.graph, so a later build on the same
\* object does what the first build of a new object does).  The return
\* record keeps the schemas when the graph was built from them, and what the
\* cache file held when the graph was loaded from it.
Build(schemas, force) ==
    /\ mem.graph = None
    /\ LET b == BuildOrLoad(BuildFromSchemas(schemas), force, disk)
       IN /\ mem' = [mem EXCEPT !.graph = Some(b.graph)]
          /\ disk' = b.disk
          /\ ret' = [op |-> "build", ok |-> TRUE, err |-> "none", force |-> force,
                     path |-> b.path, had_cache |-> disk.graph # None,
                     schemas |-> IF b.path = "build" THEN Some(schemas) ELSE None,
                     before |-> IF b.path = "load" THEN disk.graph ELSE None]
    /\ UNCHANGED <<config, db, gen, hist, wr, rd, call>>

\* GraphBuilder.get_neighbors(qualified_table, hops); before the first build
\* the object has no graph attribute
GetNeighborsCall(qualified_table, hops) ==
    /\ ret' = IF mem.graph = None
              THEN [op |-> "get_neighbors", ok |-> FALSE, err |-> "AttributeError"]
              ELSE [op |-> "get_neighbors", ok |-> TRUE, err |-> "none",
                    table |-> qualified_table, hops |-> hops,
                    neighbors |-> GetNeighbors(mem.graph[1], qualified_table, hops)]
    /\ UNCHANGED <<config, db, disk, mem, gen, hist, wr, rd, call>>

InitGraph == InitIdx

NextGraph ==
    \/ \E schemas \in DBSchemas, force \in BOOLEAN : Build(schemas, force)
    \/ \E qualified_table \in QueryNames, hops \in 0..MaxHops :
          GetNeighborsCall(qualified_table, hops)
    \/ Restart /\ UNCHANGED <<wr, rd, call>>

SpecGraph == InitGraph /\ [][NextGraph]_vars

\* ------------------------------------------------------------ the chunker

MaxLines == 3       \* rendered lines of one table: 0..MaxLines

\* Chunker._to_markdown after the header: a Columns line per ten columns,
\* then the Related line if the table has foreign keys, then the Indexes
\* line if it has named indices; a table with no columns, foreign keys or
\* indices renders no line
RECURSIVE Repeat(_, _)
Repeat(line, n) == IF n = 0 THEN <<>> ELSE <<line>> \o Repeat(line, n - 1)

RenderedLines ==
    { ls \in { Repeat(ColsLine, n) \o rel \o idx :
                 n \in 0..MaxLines, rel \in {<<>>, <<RelLine>>}, idx \in {<<>>, <<IdxLine>>} } :
        Len(ls) <= MaxLines }

\* the tables chunked: one table of the metadata at a time
ChunkedTables ==
    { TableInfo(name, ls, IF RelLine \in { ls[i] : i \in 1..Len(ls) } THEN {"users"} ELSE {}) :
        name \in {"users", "orders"}, ls \in RenderedLines }

\* the settings of config["chunking"] the chunker is constructed with
ChunkerConfigs ==
    { [BaseConfig EXCEPT !.max_tokens = m, !.overlap_tokens = o] :
        m \in MaxTokensChoices, o \in OverlapChoices }

\* Chunker.chunk_metadata(metadata_dict) as SchemaSearch.index calls it
ChunkMetadataCall ==
    /\ ret.op = "none"
    /\ mem' = [mem EXCEPT !.chunks =
                 ChunkMetadata(mem.metadata_dict, mem.chunker,
                               [i \in 1..Len(mem.metadata_dict) |-> None])]
    /\ ret' = Ret("chunk_metadata", "none", FALSE, "-", 0)
    /\ UNCHANGED <<config, db, disk, gen, hist, wr, rd, call>>

\* an object whose metadata holds one table, before chunking
InitChunk ==
    /\ config \in ChunkerConfigs
    /\ db = 1
    /\ disk = EmptyDisk
    /\ \E table_info \in ChunkedTables :
          mem = [Constructor(config) EXCEPT !.metadata_dict = <<table_info>>]
    /\ gen = 0
    /\ ret = Ret("none", "none", FALSE, "-", 0)
    /\ hist = [crashed |-> FALSE, succeeded |-> FALSE, last |-> None, prev |-> None]
    /\ wr = None
    /\ rd = ReaderIdle(Constructor(config))
    /\ call = NoCall

NextChunk == ChunkMetadataCall

SpecChunk == InitChunk /\ [][NextChunk]_vars

\* ------------------------------------------- BaseChunker, line by line

\* the tables of the database chunked: schema name, table name.  Quoted
\* identifiers may hold a dot, so that two tables can qualify alike.
SplitTables == { <<"s", "a">>, <<"s", "a.b">>, <<"s.a", "b">> }

\* a Columns line of ten columns
WideColsLine == <<13, 5, 5, 5, 5, 5, 5, 5, 5, 4>>

SplitLines == {ColsLine, RelLine, WideColsLine}

\* what _generate_content returns for a table: a first line, then 0..MaxLines
\* lines
Contents(table_name) ==
    { <<<<6, Len(table_name)>>>> \o ls :
        ls \in UNION { [1..n -> SplitLines] : n \in 0..MaxLines } }

\* the list `tables` of chunk_schemas: the (schema, table) pairs of the
\* nested dictionary, each once, with the table's generated content
TableLists ==
    UNION { { <<[schema_name |-> t[1], table_name |-> t[2], content |-> c]>> :
                c \in Contents(t[2]) } : t \in SplitTables }
    \cup
    { x \in
    UNION { { <<[schema_name |-> t[1], table_name |-> t[2], content |-> c],
                [schema_name |-> u[1], table_name |-> u[2],
                 content |-> <<<<6, Len(u[2])>>, ColsLine, ColsLine, ColsLine>>]>> :
                c \in Contents(t[2]) } :
            t \in SplitTables, u \in SplitTables } :
        x[1].schema_name # x[2].schema_name \/ x[1].table_name # x[2].table_name }

SplitOverlapChoices == {0, 8}

\* f"Schema: {schema_name}\nTable: {table_name}": the one first element of
\* every chunk's lines
BaseHeader(schema_name, table_name) ==
    [schema_name |-> schema_name, table_name |-> table_name]

\* the words of the header text
HeaderText(header) ==
    <<7, Len(header.schema_name), 6, Len(header.table_name)>>

\* f"{schema_name}.{table_name}.{chunk_idx}"
ChunkId(schema_name, table_name, chunk_idx) ==
    schema_name \o "." \o table_name \o "." \o ToString(chunk_idx)

BaseChunk(schema_name, table_name, content, chunk_id, token_count) ==
    [schema_name |-> schema_name, table_name |-> table_name,
     content |-> content, chunk_id |-> chunk_id, token_count |-> token_count]

\* Chunker._get_overlap_lines: the longest tail of lines within max_tokens
RECURSIVE GetOverlapLines(_, _)
GetOverlapLines(lines, max_tokens) ==
    IF lines = <<>> \/ EstimateTokens(lines[Len(lines)]) > max_tokens
    THEN <<>>
    ELSE Append(GetOverlapLines(SubSeq(lines, 1, Len(lines) - 1),
                                max_tokens - EstimateTokens(lines[Len(lines)])),
                lines[Len(lines)])

\* the chunk opened after an overflow, with the lines of the closed one
\* that fit overlap_tokens carried over
OpenChunkWithOverlap(header, closed_lines, overlap_tokens) ==
    <<header>> \o GetOverlapLines(Tail(closed_lines), overlap_tokens)

\* the chunk opened after an overflow, the last line of the closed one
\* repeated in it
OpenChunkWithLastLine(header, closed_lines, overlap_tokens) ==
    <<header, closed_lines[Len(closed_lines)]>>

\* current_chunk_lines = [header] after an overflow
OpenChunk(header, closed_lines, overlap_tokens) == <<header>>

\* chunk_idx left as it is when a chunk is appended
NextChunkIdxSame(chunk_idx) == chunk_idx

\* chunk_idx after a chunk was appended
NextChunkIdx(chunk_idx) == chunk_idx + 1

\* the position of chunk_schemas between two calls
SplitIdle ==
    [pc |-> "none", i |-> 0, rest |-> <<>>, current_chunk_lines |-> <<>>,
     current_tokens |-> 0, chunk_idx |-> 0, chunks |-> <<>>,
     line |-> <<>>, opened |-> FALSE]

\* chunk_schemas(schemas): the list of tables is made
ChunkSchemas ==
    /\ call.pc = "none"
    /\ mem' = [mem EXCEPT !.chunks = <<>>]
    /\ call' = [SplitIdle EXCEPT !.pc = "tables", !.i = 1]
    /\ UNCHANGED <<config, db, disk, gen, ret, hist, wr, rd>>

\* _chunk_table up to its loop: the content is split in lines and the
\* first chunk opened with the header
ChunkTableBegin ==
    /\ call.pc = "tables"
    /\ call.i <= Len(mem.metadata_dict)
    /\ LET t == mem.metadata_dict[call.i]
           header == BaseHeader(t.schema_name, t.table_name)
       IN call' = [call EXCEPT !.pc = "lines",
                               !.rest = Tail(t.content),
                               !.current_chunk_lines = <<header>>,
                               !.current_tokens = EstimateTokens(HeaderText(header)),
                               !.chunk_idx = 0,
                               !.chunks = <<>>,
                               !.line = <<>>,
                               !.opened = FALSE]
    /\ UNCHANGED <<config, db, disk, mem, gen, ret, hist, wr, rd>>

\* one turn of the loop of _chunk_table
ChunkLine ==
    /\ call.pc = "lines"
    /\ call.rest # <<>>
    /\ LET t == mem.metadata_dict[call.i]
           header == BaseHeader(t.schema_name, t.table_name)
           line == Head(call.rest)
           line_tokens == EstimateTokens(line)
           overflow == /\ call.current_tokens + line_tokens > mem.chunker.max_tokens
                       /\ Len(call.current_chunk_lines) > 1
           opened == OpenChunk(header, call.current_chunk_lines,
                               mem.chunker.overlap_tokens)
       IN call' =
            IF overflow
            THEN [call EXCEPT
                    !.rest = Tail(call.rest),
                    !.chunks = Append(call.chunks,
                                   BaseChunk(t.schema_name, t.table_name,
                                             call.current_chunk_lines,
                                             ChunkId(t.schema_name, t.table_name,
                                                     call.chunk_idx),
                                             call.current_tokens)),
                    !.chunk_idx = NextChunkIdx(call.chunk_idx),
                    !.current_chunk_lines = Append(opened, line),
                    !.current_tokens = EstimateTokens(HeaderText(header)) + line_tokens,
                    !.line = line,
                    !.opened = TRUE]
            ELSE [call EXCEPT
                    !.rest = Tail(call.rest),
                    !.current_chunk_lines = Append(call.current_chunk_lines, line),
                    !.current_tokens = call.current_tokens + line_tokens,
                    !.line = line,
                    !.opened = FALSE]
    /\ UNCHANGED <<config, db, disk, mem, gen, ret, hist, wr, rd>>

\* _chunk_table after its loop, and chunks.extend(table_chunks)
ChunkTableEnd ==
    /\ call.pc = "lines"
    /\ call.rest = <<>>
    /\ LET t == mem.metadata_dict[call.i]
           table_chunks ==
              IF Len(call.current_chunk_lines) > 1
              THEN Append(call.chunks,
                          BaseChunk(t.schema_name, t.table_name,
                                    call.current_chunk_lines,
                                    ChunkId(t.schema_name, t.table_name, call.chunk_idx),
                                    call.current_tokens))
              ELSE call.chunks
       IN /\ mem' = [mem EXCEPT !.chunks = mem.chunks \o table_chunks]
          /\ call' = [SplitIdle EXCEPT !.pc = "tables", !.i = call.i + 1,
                                       !.chunks = table_chunks]
    /\ UNCHANGED <<config, db, disk, gen, ret, hist, wr, rd>>

\* chunk_schemas returns the chunks of all tables
ChunkSchemasReturn ==
    /\ call.pc = "tables"
    /\ call.i > Len(mem.metadata_dict)
    /\ call' = [call EXCEPT !.pc = "done"]
    /\ ret' = Ret("chunk_schemas", "none", FALSE, "-", 0)
    /\ UNCHANGED <<config, db, disk, mem, gen, hist, wr, rd>>

\* a chunker constructed with max_tokens and overlap_tokens, and the
\* schemas it is given
InitSplit ==
    /\ config \in { [BaseConfig EXCEPT !.max_tokens = m, !.overlap_tokens = o] :
                      m \in MaxTokensChoices, o \in SplitOverlapChoices }
    /\ db = 1
    /\ disk = EmptyDisk
    /\ \E tables \in TableLists :
          mem = [Constructor(config) EXCEPT
                   !.metadata_dict = tables,
                   !.chunker = [max_tokens |-> config.max_tokens,
                                overlap_tokens |-> config.overlap_tokens]]
    /\ gen = 0
    /\ ret = Ret("none", "none", FALSE, "-", 0)
    /\ hist = [crashed |-> FALSE, succeeded |-> FALSE, last |-> None, prev |-> None]
    /\ wr = None
    /\ rd = ReaderIdle(Constructor(config))
    /\ call = SplitIdle

NextSplit ==
    \/ ChunkSchemas
    \/ ChunkTableBegin
    \/ ChunkLine
    \/ ChunkTableEnd
    \/ ChunkSchemasReturn

SpecSplit == InitSplit /\ [][NextSplit]_vars

\* ------------------------------------------- the chunker with summaries

\* what the summarizer may answer for one table in this specification: a
\* failure, or a summary of one, two or three lines
SummaryAnswers ==
    {None} \cup { Some(Repeat(SumLine, n)) : n \in 1..MaxLines }

\* Chunker.chunk_metadata(metadata_dict) with use_llm_summary, the
\* summarizer answering llm[i] for the i-th table (None: the call failed)
ChunkMetadataLlm ==
    /\ ret.op = "none"
    /\ \E llm \in [1..Len(mem.metadata_dict) -> SummaryAnswers] :
          /\ mem' = [mem EXCEPT !.chunks =
                       ChunkMetadata(mem.metadata_dict, mem.chunker, llm)]
          /\ ret' = [op |-> "chunk_metadata", ok |-> TRUE, err |-> "none", llm |-> llm]
    /\ UNCHANGED <<config, db, disk, gen, hist, wr, rd, call>>

\* a chunker with the summarizer configured, and the extracted metadata of
\* one of the databases
InitSummary ==
    /\ config \in { [LlmConfig EXCEPT !.max_tokens = m] : m \in MaxTokensChoices }
    /\ db \in Databases
    /\ disk = EmptyDisk
    /\ mem = [Constructor(config) EXCEPT !.metadata_dict = Extract(db)]
    /\ gen = 0
    /\ ret = Ret("none", "none", FALSE, "-", 0)
    /\ hist = [crashed |-> FALSE, succeeded |-> FALSE, last |-> None, prev |-> None]
    /\ wr = None
    /\ rd = ReaderIdle(Constructor(config))
    /\ call = NoCall

NextSummary == ChunkMetadataLlm

SpecSummary == InitSummary /\ [][NextSummary]_vars

\* ------------------------- the hybrid strategy and the pure strategies

\* normalized scores are counted in units of 1/FusionScale, in which every
\* quotient by a range of scores is a whole number
MaxSim == 2         \* similarity scores of the two kinds: 0..MaxSim

FusionScale == Factorial(MaxSim)

\* the tables of a chunk sequence
TablesOf(chunks) == { chunks[i].table_name : i \in 1..Len(chunks) }

\* what a query is to the hybrid strategy: per chunk the similarity of its
\* embedding to the query embedding (compute_similarities), per table the
\* fuzz.ratio of the query and the table's searchable text
FusionQueries(chunks) ==
    [emb : [1..Len(chunks) -> 0..MaxSim], fuzzy : [TablesOf(chunks) -> 0..MaxSim]]

\* min-max normalization of a score vector, all zero when the range is zero
MinMaxNorm(scores) ==
    LET values == { scores[i] : i \in 1..Len(scores) }
        lo == CHOOSE v \in values : \A u \in values : v <= u
        range == MaxOf(values) - lo
    IN [i \in 1..Len(scores) |->
          IF range > 0 THEN ((scores[i] - lo) * FusionScale) \div range ELSE 0]

\* HybridSearchStrategy._initial_ranking up to hybrid_scores; semantic_weight
\* is 0 or 1, fuzzy_weight = 1 - semantic_weight
HybridScores(chunks, q, semantic_weight) ==
    LET semantic_scores_norm == MinMaxNorm(q.emb)
        fuzzy_scores_norm == MinMaxNorm([i \in 1..Len(chunks) |-> q.fuzzy[chunks[i].table_name]])
    IN [i \in 1..Len(chunks) |->
          semantic_weight * semantic_scores_norm[i]
            + (1 - semantic_weight) * fuzzy_scores_norm[i]]

FusionHops == {0, 1}
SemanticWeights == {0, 1}

\* HybridSearchStrategy.search(query, ..., hops, limit) with no reranker
\* configured: the first limit items of _initial_ranking.  What it was
\* called with and what it returned is kept.
HybridSearch(semantic_weight, hops, initial_top_k, limit) ==
    /\ ret.op = "index"
    /\ \E q \in FusionQueries(mem.chunks) :
       \E ranked \in RankedLists(HybridScores(mem.chunks, q, semantic_weight)) :
         ret' = [op |-> "hybrid", ok |-> TRUE, err |-> "none", query |-> q,
                 semantic_weight |-> semantic_weight, hops |-> hops,
                 initial_top_k |-> initial_top_k, limit |-> limit,
                 results |-> Prefix(InitialResults(mem.chunks, ranked, initial_top_k,
                                                   mem.graph[1], hops),
                                    limit)]
    /\ UNCHANGED <<config, db, disk, mem, gen, hist, wr, rd, call>>

\* SemanticSearchStrategy.search for the same query, hops, initial_top_k and
\* limit on the same chunks and embeddings.  Its reranker is the BM25-hybrid
\* one with bm25_weight = 0: the score of a chunk is its embedding score.
SemanticSearch(rerank_top_k) ==
    /\ ret.op = "hybrid"
    /\ ret.semantic_weight = 1
    /\ call.pc = "none"
    /\ \E ranked \in RankedLists(ret.query.emb) :
         LET initial_tables == { mem.chunks[ranked[i].idx].table_name :
                                   i \in 1..Min(ret.initial_top_k, Len(ranked)) }
             ex == SemanticExpandGraph(mem.graph[1], initial_tables, ret.hops)
         IN \E order \in Iterations(ex.tables) :
              LET rerank_chunk_indices == RerankChunkIndices(mem.chunks, order)
                  tables == [i \in 1..Len(rerank_chunk_indices) |->
                               mem.chunks[rerank_chunk_indices[i]].table_name]
                  rescores == [i \in 1..Len(rerank_chunk_indices) |->
                                 ret.query.emb[rerank_chunk_indices[i]]]
              IN \E reranked \in RankedLists(rescores) :
                   LET final_map == GetTopTablesFromChunks(tables, reranked, rerank_top_k)
                   IN call' = [NoCall EXCEPT
                        !.pc = "returned", !.strategy = "semantic", !.reranker = TRUE,
                        !.hops = ret.hops, !.initial_tables = initial_tables,
                        !.expanded = ex.tables, !.consulted = ex.consulted,
                        !.rerank_top_k = rerank_top_k, !.limit = ret.limit,
                        !.rerank_chunks = rerank_chunk_indices,
                        !.reranked = reranked, !.top = final_map,
                        !.results = SemanticRerankResults(rerank_chunk_indices, reranked,
                                                          final_map, mem.graph[1],
                                                          ret.hops, ret.limit)]
    /\ UNCHANGED <<config, db, disk, mem, gen, ret, hist, wr, rd>>

\* FuzzySearchStrategy.search for the same query and limit: the tables
\* scored by the same ratio, an item per table by descending score
FuzzySearch ==
    /\ ret.op = "hybrid"
    /\ ret.semantic_weight = 0
    /\ call.pc = "none"
    /\ \E names \in Iterations(TablesOf(mem.chunks)) :
         LET items == [i \in 1..Len(names) |->
                         ResultItem(names[i], ret.query.fuzzy[names[i]], <<>>,
                                    mem.graph[1], ret.hops)]
         IN call' = [NoCall EXCEPT
                  !.pc = "returned", !.strategy = "fuzzy", !.hops = ret.hops,
                  !.limit = ret.limit,
                  !.results = Prefix(SortDesc(items, MaxSim), ret.limit)]
    /\ UNCHANGED <<config, db, disk, mem, gen, ret, hist, wr, rd>>

\* the index searched by two strategies: users and orders
InitFusion == InitSearch /\ db = 1

NextFusion ==
    \/ \E semantic_weight \in SemanticWeights, hops \in FusionHops,
          initial_top_k \in 1..MaxTopK, limit \in 1..MaxLimit :
          HybridSearch(semantic_weight, hops, initial_top_k, limit)
    \/ \E rerank_top_k \in 1..MaxTopK : SemanticSearch(rerank_top_k)
    \/ FuzzySearch

SpecFusion == InitFusion /\ [][NextFusion]_vars

\* ------------------------------------------------ the BM25 strategy

MaxDocs == 3        \* chunks of the corpus: 1..MaxDocs
MaxTerms == 3       \* different words of one chunk's text: 1..MaxTerms

Vocabulary == {"user", "email", "address", "product", "price"}

\* text.lower().split() of a chunk's content: its words, here each once
Texts == { T \in SUBSET Vocabulary : Cardinality(T) \in 1..MaxTerms }

Corpora == UNION { [1..n -> Texts] : n \in 1..MaxDocs }

Sign(n) == IF n > 0 THEN 1 ELSE IF n < 0 THEN -1 ELSE 0

\* nd[word] of BM25Okapi: the number of documents that hold the word
DocCount(corpus, word) == Cardinality({ i \in 1..Len(corpus) : word \in corpus[i] })

\* the sign of log(N - n + 0.5) - log(n + 0.5)
IdfSign(corpus, word) == Sign(Len(corpus) - 2 * DocCount(corpus, word))

\* the product over the words of 2 * (N - n + 0.5), and of 2 * (n + 0.5)
RECURSIVE NumProduct(_, _)
NumProduct(corpus, words) ==
    IF words = {} THEN 1
    ELSE LET w == CHOOSE x \in words : TRUE
         IN (2 * (Len(corpus) - DocCount(corpus, w)) + 1) * NumProduct(corpus, words \ {w})

RECURSIVE DenProduct(_, _)
DenProduct(corpus, words) ==
    IF words = {} THEN 1
    ELSE LET w == CHOOSE x \in words : TRUE
         IN (2 * DocCount(corpus, w) + 1) * DenProduct(corpus, words \ {w})

\* the sign of average_idf, the sum of these logarithms over the words of
\* the corpus divided by their number: the sign of the product of the
\* numerators less the product of the denominators
AverageIdfSign(corpus) ==
    LET words == UNION { corpus[i] : i \in 1..Len(corpus) }
    IN Sign(NumProduct(corpus, words) - DenProduct(corpus, words))

\* the sign of self.idf[word] after _calc_idf: an idf below zero is replaced
\* by epsilon * average_idf, a word not in the corpus counts 0
EffectiveIdfSign(corpus, word) ==
    IF DocCount(corpus, word) = 0 THEN 0
    ELSE IF IdfSign(corpus, word) < 0 THEN AverageIdfSign(corpus)
    ELSE IdfSign(corpus, word)

\* the level of the score 0
ZeroLevel == MaxTerms + 1

\* bm25.get_scores(query_tokens) for a query of one word, up to the order
\* of the scores: a document without the word scores 0 (ZeroLevel); one
\* that holds it scores idf * tf-factor, the factor positive and the
\* larger the shorter the document
Bm25Levels(corpus, word) ==
    [i \in 1..Len(corpus) |->
       IF word \in corpus[i]
       THEN ZeroLevel + EffectiveIdfSign(corpus, word)
                          * (1 + MaxTerms - Cardinality(corpus[i]))
       ELSE ZeroLevel]

\* BM25SearchStrategy._initial_ranking(query, schemas, chunks, ...): the
\* index is built over the chunks, the chunks are scored and the top
\* initial_top_k become items; the scores are kept as levels
Bm25InitialRanking(initial_top_k) ==
    /\ ret.op = "none"
    /\ \E word \in Vocabulary :
         LET corpus == [i \in 1..Len(mem.chunks) |-> mem.chunks[i].content]
             bm25_scores == Bm25Levels(corpus, word)
         IN \E ranked \in RankedLists(bm25_scores) :
              ret' = [op |-> "bm25", ok |-> TRUE, err |-> "none", query |-> word,
                      scores |-> bm25_scores,
                      results |-> [i \in 1..Min(initial_top_k, Len(ranked)) |->
                                     [table |-> mem.chunks[ranked[i].idx].table_name,
                                      score |-> ranked[i].score,
                                      matched |-> <<ranked[i].idx>>]]]
    /\ UNCHANGED <<config, db, disk, mem, gen, hist, wr, rd, call>>

\* the chunks the strategy is given: one table per chunk, any corpus
InitBm25 ==
    /\ config = BaseConfig
    /\ db = 1
    /\ disk = EmptyDisk
    /\ \E corpus \in Corpora :
          mem = [Constructor(config) EXCEPT
                   !.chunks = [i \in 1..Len(corpus) |->
                                 Chunk(ToString(i), corpus[i], i - 1, 0)]]
    /\ gen = 0
    /\ ret = Ret("none", "none", FALSE, "-", 0)
    /\ hist = [crashed |-> FALSE, succeeded |-> FALSE, last |-> None, prev |-> None]
    /\ wr = None
    /\ rd = ReaderIdle(Constructor(config))
    /\ call = NoCall

NextBm25 == \E initial_top_k \in 1..MaxDocs : Bm25InitialRanking(initial_top_k)

SpecBm25 == InitBm25 /\ [][NextBm25]_vars

\* ------------------------------------------------------- construction

\* the names config["chunking"]["strategy"] and
\* config["reranker"]["strategy"] are given
StrategyNames ==
    {"llm", "raw", "markdown", "cross_encoder", "bm25_hybrid", "bm25", "none", ""}

\* semantic_weight in tenths, from -0.3 to 1.3
WeightTenths == -3..13

\* create_chunker(config, llm_api_key, llm_base_url)
CreateChunker(strategy, max_tokens, overlap_tokens) ==
    /\ ret' = IF strategy = "llm"
              THEN [op |-> "create_chunker", ok |-> TRUE, err |-> "none",
                    strategy |-> strategy, made |-> "LLMChunker",
                    max_tokens |-> max_tokens, overlap_tokens |-> overlap_tokens]
              ELSE IF strategy = "raw"
              THEN [op |-> "create_chunker", ok |-> TRUE, err |-> "none",
                    strategy |-> strategy, made |-> "MarkdownChunker",
                    max_tokens |-> max_tokens, overlap_tokens |-> overlap_tokens]
              ELSE [op |-> "create_chunker", ok |-> FALSE, err |-> "ValueError",
                    strategy |-> strategy]
    /\ UNCHANGED <<config, db, disk, mem, gen, hist, wr, rd, call>>

\* create_ranker(config)
CreateRanker(reranker_strategy, initial_top_k) ==
    /\ ret' = IF reranker_strategy = "cross_encoder"
              THEN [op |-> "create_ranker", ok |-> TRUE, err |-> "none",
                    strategy |-> reranker_strategy, made |-> "CrossEncoderRanker",
                    initial_top_k |-> initial_top_k]
              ELSE IF reranker_strategy = "bm25_hybrid"
              THEN [op |-> "create_ranker", ok |-> TRUE, err |-> "none",
                    strategy |-> reranker_strategy, made |-> "BM25Ranker"]
              ELSE [op |-> "create_ranker", ok |-> FALSE, err |-> "ValueError",
                    strategy |-> reranker_strategy]
    /\ UNCHANGED <<config, db, disk, mem, gen, hist, wr, rd, call>>

\* HybridSearchStrategy(embedding_cache, initial_top_k, rerank_top_k,
\* reranker, semantic_weight).  The range of the weight is tested by an
\* assert statement, which the interpreter leaves out when it runs
\* optimized (python -O, PYTHONOPTIMIZE).
HybridInit(semantic_weight, initial_top_k, rerank_top_k, optimized) ==
    /\ ret' = IF ~optimized /\ ~(0 <= semantic_weight /\ semantic_weight <= 10)
              THEN [op |-> "hybrid_init", ok |-> FALSE, err |-> "AssertionError",
                    given |-> semantic_weight, optimized |-> optimized]
              ELSE [op |-> "hybrid_init", ok |-> TRUE, err |-> "none",
                    given |-> semantic_weight, optimized |-> optimized,
                    initial_top_k |-> initial_top_k, rerank_top_k |-> rerank_top_k,
                    semantic_weight |-> semantic_weight,
                    fuzzy_weight |-> 10 - semantic_weight]
    /\ UNCHANGED <<config, db, disk, mem, gen, hist, wr, rd, call>>

NextConstruct ==
    \/ \E strategy \in StrategyNames, m \in MaxTokensChoices, o \in OverlapChoices :
          CreateChunker(strategy, m, o)
    \/ \E strategy \in StrategyNames, k \in 1..MaxTopK : CreateRanker(strategy, k)
    \/ \E w \in WeightTenths, k \in 1..MaxTopK, r \in 1..MaxTopK, optimized \in BOOLEAN :
          HybridInit(w, k, r, optimized)

\* nothing constructed, indexed or searched yet
SpecConstruct == InitIdx /\ [][NextConstruct]_vars

\* ------------------------------------------- claims on the index life cycle

IndexReturned == ret.op = "index" /\ ret.ok

\* C1: after any sequence of index(force) calls, with the schemas, the chunker
\* output and the settings free to change between calls, the embedding cache
\* holds as many rows as the orchestrator holds chunks
C1_RowsEqualChunks ==
    IndexReturned =>
        /\ mem.embeddings # None
        /\ Len(mem.embeddings[1].rows) = Len(mem.chunks)

\* what the claims call a usable cache, read off the directory and the settings
FilesPresent == disk.emb # None /\ disk.chunkmeta # None /\ disk.config # None
FingerprintMatches ==
    /\ disk.config # None
    /\ disk.config[1] # Unreadable
    /\ disk.config[1].use_llm_summary = config.use_llm_summary
    /\ disk.config[1].max_tokens = config.max_tokens
    /\ disk.config[1].embedding_model = config.embedding_model

C3_FingerprintFieldsInvalidate ==
    [][ (hist.last # None /\ \E llm \in LlmChoices : IndexOk(FALSE, llm)) =>
          LET old == hist.last[1]
          IN /\ (config.embedding_model # old.embedding_model
                 \/ config.max_tokens # old.max_tokens) =>
                    /\ ret'.path = "generate"
                    /\ ret'.encoded = Len(mem'.chunks)
                    /\ disk'.emb = Some([rows |-> mem'.embeddings[1].rows, gen |-> gen'])
                    /\ disk'.config[1].embedding_model = config.embedding_model
                    /\ disk'.config[1].max_tokens = config.max_tokens
             /\ (/\ config.embedding_model = old.embedding_model
                 /\ config.max_tokens = old.max_tokens
                 /\ config.use_llm_summary = old.use_llm_summary) =>
                    /\ ret'.path = "load"
                    /\ disk' = disk
      ]_vars

\* C3 witness: a non-forced call regenerated after the model was changed
C3_Witness ==
    /\ IndexReturned /\ ~ret.force /\ ret.path = "generate"
    /\ hist.prev # None
    /\ hist.prev[1].embedding_model # hist.last[1].embedding_model

\* embeddings and chunk metadata of two different rebuilds
MixedOnDisk ==
    /\ disk.emb # None /\ disk.chunkmeta # None
    /\ disk.emb[1].gen # disk.chunkmeta[1].gen

MixedInMemory ==
    /\ mem.embeddings # None /\ mem.chunk_metadata # None
    /\ mem.embeddings[1].gen # mem.chunk_metadata[1].gen

\* C4: a cache directory whose embeddings and chunk metadata were written by
\* different rebuilds, as a process killed between the writes leaves it, is
\* taken as valid by a later non-forced load_or_generate whenever the
\* fingerprint matches: the mixed pair is loaded as it is
C4_MixedCacheAccepted ==
    [][ (MixedOnDisk /\ FingerprintMatches) =>
          /\ TakesCache(disk, config, FALSE)
          /\ (\E llm \in LlmChoices : IndexOk(FALSE, llm)) =>
                /\ ret'.path = "load"
                /\ mem'.embeddings = disk.emb
                /\ mem'.chunk_metadata = disk.chunkmeta
                /\ mem'.embeddings[1].gen # mem'.chunk_metadata[1].gen
      ]_vars

\* C4 witness: after a kill between the writes, a non-forced index() returned
\* with embeddings and chunk metadata of different rebuilds
C4_Witness ==
    IndexReturned /\ ~ret.force /\ ret.path = "load" /\ hist.crashed /\ MixedInMemory

\* C5: with a writer rebuilding and a reader loading without force on the
\* same cache directory and no lock between them, the reader can pass the
\* validity check and load embeddings and chunk metadata of different
\* rebuilds; it does so only when the directory was already mixed at its
\* check or a cache file was written between its check and its last read
C5_ReaderLoadsMixedOnlyWhenInterleaved ==
    (/\ rd.pc = "done" /\ rd.path = "load"
     /\ rd.mem.embeddings[1].gen # rd.mem.chunk_metadata[1].gen)
        => (rd.mixed_at_check \/ rd.written_during)

\* C5 witness: the reader has returned from a load with embeddings and chunk
\* metadata of different rebuilds while the writer is still between its writes
C5_Witness ==
    /\ rd.pc = "done" /\ rd.path = "load"
    /\ rd.mem.embeddings[1].gen # rd.mem.chunk_metadata[1].gen
    /\ wr # None

SearchReturned == call.pc = "returned"

\* the chunks the reranker was built over, and their tables
RerankChunkSet == { call.rerank_chunks[i] : i \in 1..Len(call.rerank_chunks) }
CandidateTables == { mem.chunks[i].table_name : i \in RerankChunkSet }

\* the initial candidate tables united with their neighbors within the hops
ExpansionOfInitial ==
    call.initial_tables \cup
        UNION { GetNeighbors(mem.graph[1], t, call.hops) : t \in call.initial_tables }

\* C7: in every search with a reranker, whichever strategy is selected, the
\* tables handed to the rerank stage are the initial candidate tables united
\* with get_neighbors(t, hops) of every initial candidate t, and with hops = 0
\* the graph is not consulted for expansion
C7_CandidatesAreExpansion ==
    (SearchReturned /\ call.reranker) =>
        /\ CandidateTables = ExpansionOfInitial
        /\ call.hops = 0 => ~call.consulted

\* C8: the reranker is built over exactly the chunks of the tables of the
\* expanded candidate set: every chunk of every expanded table, once, and no
\* chunk of another table
C8_RerankerBuiltOverExpandedChunks ==
    (SearchReturned /\ call.reranker) =>
        /\ RerankChunkSet =
              { i \in 1..Len(mem.chunks) : mem.chunks[i].table_name \in ExpansionOfInitial }
        /\ Len(call.rerank_chunks) = Cardinality(RerankChunkSet)

ResultTables == { call.results[i].table : i \in 1..Len(call.results) }

\* C9: a search given a limit returns at most limit items; with a reranker
\* it returns at most rerank_top_k items and tables; with no reranker it
\* returns the first limit items of the initial ranking, unchanged
C9_ResultsBounded ==
    SearchReturned =>
        /\ call.strategy # "orchestrator" => Len(call.results) <= call.limit
        /\ call.reranker =>
              /\ Len(call.results) <= call.rerank_top_k
              /\ Cardinality(ResultTables) <= call.rerank_top_k
        /\ ~call.reranker =>
              /\ Len(call.results) = Min(call.limit, Len(call.initial_results))
              /\ \A i \in 1..Len(call.results) : call.results[i] = call.initial_results[i]

\* C9 witness: a semantic search kept more tables in its rerank than the
\* limit and returned limit items
C9_Witness ==
    /\ SearchReturned /\ call.strategy = "semantic"
    /\ Len(call.top) > call.limit
    /\ Len(call.results) = call.limit

\* the best score the reranker gave to a chunk of table t, and the tables
\* that occur in the ranked list
BestScore(t) ==
    MaxOf({ call.reranked[i].score : i \in { j \in 1..Len(call.reranked) :
              mem.chunks[call.rerank_chunks[call.reranked[j].idx]].table_name = t } })
RankedTables ==
    { mem.chunks[call.rerank_chunks[call.reranked[i].idx]].table_name :
        i \in 1..Len(call.reranked) }
TopTables == { call.top[i].table : i \in 1..Len(call.top) }

\* C10: get_top_tables_from_chunks(ranked, top_k) returns at most top_k
\* distinct tables, none of them with a best chunk score below that of a
\* table it left out, each mapped to all of its chunk indices in the ranked
\* list
C10_TopTablesByBestChunkScore ==
    (SearchReturned /\ call.strategy \in GraphSearchStrategies) =>
        /\ Len(call.top) <= call.rerank_top_k
        /\ Cardinality(TopTables) = Len(call.top)
        /\ \A t \in TopTables : \A u \in RankedTables \ TopTables :
              BestScore(t) >= BestScore(u)
        /\ \A i \in 1..Len(call.top) :
              { call.top[i].chunk_indices[j] : j \in 1..Len(call.top[i].chunk_indices) }
                = { call.reranked[j].idx : j \in { k \in 1..Len(call.reranked) :
                      mem.chunks[call.rerank_chunks[call.reranked[k].idx]].table_name
                        = call.top[i].table } }

\* the scores the reranker gave to the chunks listed in an item's
\* matched_chunks
RerankScoresOf(item) ==
    { call.reranked[j].score :
        j \in { k \in 1..Len(call.reranked) :
                 call.rerank_chunks[call.reranked[k].idx]
                    \in { item.matched[m] : m \in 1..Len(item.matched) } } }

\* C11: the score of every result item of a reranked search is the largest
\* score the reranker gave to a chunk listed in the item's matched_chunks
C11_ScoreIsBestMatchedChunkScore ==
    (SearchReturned /\ call.reranker) =>
        \A i \in 1..Len(call.results) :
           call.results[i].score = MaxOf(RerankScoresOf(call.results[i]))

\* C12: every item r of a search result with hop limit h has
\* related_tables = get_neighbors(r.table, h), computed for that table alone,
\* whether r.table was an initial candidate or came from the expansion; with
\* h = 0 the set is empty
C12_RelatedTablesAreNeighbors ==
    SearchReturned =>
        \A i \in 1..Len(call.results) :
           /\ call.results[i].related =
                 GetNeighbors(mem.graph[1], call.results[i].table, call.hops)
           /\ call.hops = 0 => call.results[i].related = {}

\* C12 witness: a search with two hops returned an item for a table that was
\* not an initial candidate, and the item lists a table two edges away
C12_Witness ==
    /\ SearchReturned /\ call.hops = 2
    /\ \E i \in 1..Len(call.results) :
          /\ call.results[i].table \notin call.initial_tables
          /\ call.results[i].related
                # GetNeighbors(mem.graph[1], call.results[i].table, 1)

\* C13: two searches of the same query over the same chunks and embeddings
\* that differ only in the hop count give the same score to every table that
\* is in both result lists
C13_GraphNeverChangesScore ==
    (ret.op = "search" /\ call.pc = "returned") =>
        \A i \in 1..Len(ret.results) : \A j \in 1..Len(call.results) :
           ret.results[i].table = call.results[j].table
              => ret.results[i].score = call.results[j].score

\* ------------------------------------------------ claims on the graph

NeighborsReturned == ret.op = "get_neighbors" /\ ret.ok

\* C14: get_neighbors(t, 0) is empty, and get_neighbors(t, h1) is a subset of
\* get_neighbors(t, h2) whenever h1 <= h2
C14_NeighborsGrowWithHops ==
    NeighborsReturned =>
        /\ ret.hops = 0 => ret.neighbors = {}
        /\ \A h \in 0..MaxHops :
              /\ h <= ret.hops
                   => GetNeighbors(mem.graph[1], ret.table, h) \subseteq ret.neighbors
              /\ ret.hops <= h
                   => ret.neighbors \subseteq GetNeighbors(mem.graph[1], ret.table, h)

\* C14 witness: a call with two hops returned more tables than one hop
\* gives, and one hop gives some
C14_Witness ==
    /\ NeighborsReturned /\ ret.hops = 2
    /\ GetNeighbors(mem.graph[1], ret.table, 1) # {}
    /\ GetNeighbors(mem.graph[1], ret.table, 1) # ret.neighbors

\* the last tables of the walks of at most h edges of E that start at t
WalkEnds(E, t, h) ==
    LET names == { e[1] : e \in E } \cup { e[2] : e \in E } \cup {t}
        walks == { q \in UNION { [1..n -> names] : n \in 1..(h + 1) } :
                     /\ q[1] = t
                     /\ \A i \in 1..(Len(q) - 1) : <<q[i], q[i + 1]>> \in E }
    IN { q[Len(q)] : q \in walks }

\* C15: get_neighbors(t, h) is the union of the tables reached from t along
\* at most h foreign-key edges forward and of those reached along at most h
\* edges backward, without t itself
C15_NeighborsAreForwardAndBackward ==
    NeighborsReturned =>
        ret.neighbors =
            (WalkEnds(mem.graph[1].edges, ret.table, ret.hops)
               \cup WalkEnds({ <<e[2], e[1]>> : e \in mem.graph[1].edges },
                             ret.table, ret.hops)) \ {ret.table}

\* C15 witness: a call with two hops returned a table found only forward and
\* a table found only backward
C15_Witness ==
    /\ NeighborsReturned /\ ret.hops = 2
    /\ \E a, b \in ret.neighbors :
          /\ a \notin WalkEnds({ <<e[2], e[1]>> : e \in mem.graph[1].edges }, ret.table, 2)
          /\ b \notin WalkEnds(mem.graph[1].edges, ret.table, 2)

\* C16: get_neighbors never returns the queried table, also when the table
\* refers to itself or lies on a cycle of foreign keys; for a name that is
\* not a node it returns the empty set; on a built graph it raises nothing
C16_NeverSelfNeverRaises ==
    (ret.op = "get_neighbors" /\ mem.graph # None) =>
        /\ ret.ok
        /\ ret.table \notin ret.neighbors
        /\ ret.table \notin mem.graph[1].nodes => ret.neighbors = {}

\* C16 witness: a call with two hops returned for a table that lies on a
\* cycle of foreign keys through another table
C16_Witness ==
    /\ NeighborsReturned /\ ret.hops = 2
    /\ \E b \in ret.neighbors :
          /\ <<ret.table, b>> \in mem.graph[1].edges
          /\ <<b, ret.table>> \in mem.graph[1].edges

\* C17: the neighbor relation is symmetric: b is in get_neighbors(a, h)
\* exactly when a is in get_neighbors(b, h)
C17_NeighborsSymmetric ==
    NeighborsReturned =>
        \A b \in QueryNames :
           b \in ret.neighbors
              <=> ret.table \in GetNeighbors(mem.graph[1], b, ret.hops)

\* C17 witness: s.a has a foreign key to s.b, and a call for s.b with one hop
\* returned s.a
C17_Witness ==
    /\ NeighborsReturned /\ ret.hops = 1 /\ ret.table = "s.b"
    /\ <<"s.a", "s.b">> \in mem.graph[1].edges
    /\ <<"s.b", "s.a">> \notin mem.graph[1].edges
    /\ "s.a" \in ret.neighbors

BuiltFromSchemas == ret.op = "build" /\ ret.path = "build"

\* C18: after a build from schemas the nodes are the qualified names of the
\* tables of the DBSchema, and there is an edge a -> b exactly when table a
\* declares a foreign key whose referred schema.table is b and b is a node;
\* a foreign key to an unknown table adds no edge and no node, and nothing
\* is raised
C18_GraphOfSchemas ==
    BuiltFromSchemas =>
        LET schemas == ret.schemas[1]
            graph == mem.graph[1]
        IN /\ ret.ok
           /\ graph.nodes = { MakeTableKey(p[1], p[2]) : p \in DOMAIN schemas }
           /\ \A a, b \in QueryNames \cup graph.nodes :
                 <<a, b>> \in graph.edges
                    <=> /\ b \in graph.nodes
                        /\ \E p \in DOMAIN schemas :
                              /\ MakeTableKey(p[1], p[2]) = a
                              /\ \E fk \in schemas[p] : MakeTableKey(fk[1], fk[2]) = b
           /\ graph.edges \subseteq graph.nodes \X graph.nodes

\* C18 witness: a build from a DBSchema in which one table refers to a table
\* of the DBSchema and another to a table that is in none
C18_Witness ==
    /\ BuiltFromSchemas
    /\ mem.graph[1].edges # {}
    /\ \E p \in DOMAIN ret.schemas[1] : \E fk \in ret.schemas[1][p] :
          MakeTableKey(fk[1], fk[2]) \notin mem.graph[1].nodes

\* C19: build(schemas, force=False) with a cache file present loads the
\* graph of the file, whatever schemas it is given, and leaves the file;
\* build with force=True or without a cache file builds the graph from
\* schemas and overwrites the file; the file of a graph loads back as a
\* graph with the same nodes and edges
C19_BuildLoadsOrOverwrites ==
    ret.op = "build" =>
        /\ ret.path = "load" <=> (~ret.force /\ ret.had_cache)
        /\ ret.path = "load" =>
              /\ disk.graph = ret.before
              /\ mem.graph = Some(Unpickle(ret.before[1]))
        /\ ret.path = "build" =>
              /\ mem.graph = Some(BuildFromSchemas(ret.schemas[1]))
              /\ disk.graph # None
              /\ Unpickle(disk.graph[1]) = mem.graph[1]

\* C19 witness: a build without force loaded a graph that has an edge and a
\* table without foreign keys to or from it
C19_Witness ==
    /\ ret.op = "build" /\ ret.path = "load"
    /\ mem.graph[1].edges # {}
    /\ \E n \in mem.graph[1].nodes :
          \A e \in mem.graph[1].edges : e[1] # n /\ e[2] # n

\* ----------------------------------------------- claims on the chunker

ChunksReturned == ret.op = "chunk_metadata" /\ ret.ok

\* the estimate of a table's whole content, the header and the rendered
\* lines joined by newlines
ContentTokens(table_info) == EstimateTokens(Flatten(ToMarkdown(table_info)))

\* C20: a table whose content, header and rendered lines, is estimated at
\* no more than max_tokens gets exactly one chunk, whose content is the
\* header followed by every rendered line in order
C20_SmallTableOneChunk ==
    ChunksReturned =>
        \A i \in 1..Len(mem.metadata_dict) :
           ContentTokens(mem.metadata_dict[i]) <= mem.chunker.max_tokens
              => /\ Len(mem.chunks) = 1
                 /\ mem.chunks[1].content = ToMarkdown(mem.metadata_dict[i])

\* ------------------------------------- claims on the line-by-line chunker

\* _chunk_table has just returned the chunks of one table
TableChunked == call.pc = "tables" /\ call.i > 1

\* the table _chunk_table has just chunked
ChunkedTable == mem.metadata_dict[call.i - 1]

\* the estimated tokens of a chunk's lines, the header not counted
LineTokens(chunk) == SumSeq([k \in 1..(Len(chunk.content) - 1) |->
                               EstimateTokens(chunk.content[k + 1])])

\* C21: a table whose generated content is estimated above max_tokens gets
\* at least two chunks, and the lines of each of its chunks, the header not
\* counted, are estimated at no more than max_tokens
C21_LargeTableSplitWithinBudget ==
    (TableChunked /\ EstimateTokens(Flatten(ChunkedTable.content)) > mem.chunker.max_tokens)
       => /\ Len(call.chunks) >= 2
          /\ \A k \in 1..Len(call.chunks) :
                LineTokens(call.chunks[k]) <= mem.chunker.max_tokens

\* C22: every chunk begins with the identity header of its table, and the
\* chunk opened after an overflow holds, when the turn of the loop ends,
\* the header and the overflowing line and nothing else, whatever
\* overlap_tokens is
C22_HeaderResetNoOverlap ==
    /\ \A k \in 1..Len(mem.chunks) :
          mem.chunks[k].content[1] =
             BaseHeader(mem.chunks[k].schema_name, mem.chunks[k].table_name)
    /\ call.pc = "lines" =>
          /\ \A k \in 1..Len(call.chunks) :
                /\ call.chunks[k].schema_name = mem.metadata_dict[call.i].schema_name
                /\ call.chunks[k].table_name = mem.metadata_dict[call.i].table_name
                /\ call.chunks[k].content[1] =
                      BaseHeader(mem.metadata_dict[call.i].schema_name,
                                 mem.metadata_dict[call.i].table_name)
          /\ call.opened =>
                call.current_chunk_lines =
                   << BaseHeader(mem.metadata_dict[call.i].schema_name,
                                 mem.metadata_dict[call.i].table_name),
                      call.line >>

\* a chunk was opened after an overflow, and the last line of the chunk
\* just closed fits the configured overlap_tokens
C22_Witness ==
    /\ call.pc = "lines"
    /\ call.opened
    /\ LET closed == call.chunks[Len(call.chunks)].content
       IN EstimateTokens(closed[Len(closed)]) <= mem.chunker.overlap_tokens

\* chunk_schemas has returned
SchemasChunked == ret.op = "chunk_schemas" /\ ret.ok

\* the ids of the chunks of the table just chunked are schema.table.0,
\* schema.table.1, ... in emission order
IdsSequential ==
    TableChunked =>
       \A k \in 1..Len(call.chunks) :
          call.chunks[k].chunk_id =
             ChunkId(ChunkedTable.schema_name, ChunkedTable.table_name, k - 1)

\* C23 as stated: the ids of one table's chunks are schema.table.0,
\* schema.table.1, ... in emission order, and no two chunks of the sequence
\* chunk_schemas returns share an id
C23_IdsSequentialAndUnique ==
    /\ IdsSequential
    /\ SchemasChunked =>
          \A j, k \in 1..Len(mem.chunks) :
             j # k => mem.chunks[j].chunk_id # mem.chunks[k].chunk_id

\* C23 amended: the ids of one table's chunks are schema.table.0,
\* schema.table.1, ... in emission order, so no two chunks of one table
\* share an id; two chunks of the returned sequence share an id only if
\* they are of two tables whose names joined by a dot are the same string
C23_IdsSequentialUniquePerName ==
    /\ IdsSequential
    /\ SchemasChunked =>
          \A j, k \in 1..Len(mem.chunks) :
             (j # k /\ mem.chunks[j].chunk_id = mem.chunks[k].chunk_id)
                => /\ <<mem.chunks[j].schema_name, mem.chunks[j].table_name>>
                        # <<mem.chunks[k].schema_name, mem.chunks[k].table_name>>
                   /\ MakeTableKey(mem.chunks[j].schema_name, mem.chunks[j].table_name)
                        = MakeTableKey(mem.chunks[k].schema_name, mem.chunks[k].table_name)

\* chunk_schemas returned the chunks of two tables, the first of them split
\* in two chunks or more
C23_Witness ==
    /\ SchemasChunked
    /\ Len(mem.metadata_dict) = 2
    /\ \E j, k \in 1..Len(mem.chunks) :
          /\ j # k
          /\ mem.chunks[j].table_name = mem.chunks[k].table_name
          /\ mem.chunks[j].schema_name = mem.chunks[k].schema_name
          /\ mem.chunks[j].schema_name = mem.metadata_dict[1].schema_name
          /\ mem.chunks[j].table_name = mem.metadata_dict[1].table_name

\* the lines of the chunks in chunk order, the header of each left out
RECURSIVE LinesOf(_)
LinesOf(chunks) ==
    IF chunks = <<>> THEN <<>>
    ELSE Tail(Head(chunks).content) \o LinesOf(Tail(chunks))

\* C30: the lines of a table's chunks, headers left out and taken in chunk
\* order, are the lines of the generated content after its first line: no
\* line dropped, none repeated, the order kept
C30_SplitKeepsEveryLineOnce ==
    TableChunked => LinesOf(call.chunks) = Tail(ChunkedTable.content)

\* a table of three lines was split in two chunks or more
C30_Witness ==
    /\ TableChunked
    /\ Len(ChunkedTable.content) >= 4
    /\ Len(call.chunks) >= 2

\* ------------------------------------- claims on the summarizing chunker

SummariesChunked == ret.op = "chunk_metadata" /\ ret.ok /\ "llm" \in DOMAIN ret

\* the chunks of one table in a chunk sequence
ChunksOfTable(chunks, table_name) ==
    LET OfTable(c) == c.table_name = table_name
    IN SelectSeq(chunks, OfTable)

\* a chunk sequence without the chunk ids
WithoutIds(chunks) ==
    [k \in 1..Len(chunks) |->
       [table_name |-> chunks[k].table_name, content |-> chunks[k].content,
        token_count |-> chunks[k].token_count]]

\* what chunk_metadata would return had the summarizer answered text for
\* the i-th table
HadSucceeded(i, text) ==
    ChunkMetadata(mem.metadata_dict, mem.chunker, [ret.llm EXCEPT ![i] = Some(text)])

\* the chunks of the i-th table are those of its structured rendering, and
\* every table has its chunks in the returned sequence
FallbackForTable(i) ==
    /\ WithoutIds(ChunksOfTable(mem.chunks, mem.metadata_dict[i].name))
         = WithoutIds(ChunkTable(mem.metadata_dict[i].name,
                                 ToMarkdown(mem.metadata_dict[i]), 0,
                                 mem.chunker.max_tokens))
    /\ \A j \in 1..Len(mem.metadata_dict) :
          ChunksOfTable(mem.chunks, mem.metadata_dict[j].name) # <<>>

C29_NoTableTwiceInResults ==
    SearchReturned =>
       \A i, j \in 1..Len(call.results) :
          i # j => call.results[i].table # call.results[j].table

\* ------------------------------- claims on the strategies for one query

\* the tables of a result list, in its order
ResultOrder(results) == [i \in 1..Len(results) |-> results[i].table]

\* C25: for one query over the same chunks and embeddings, the hybrid
\* strategy with semantic_weight = 1 returns the tables in the order the
\* semantic strategy returns them, and with semantic_weight = 0 in the order
\* the fuzzy strategy returns them; checked for the queries that score no
\* two chunks, respectively no two tables, alike
C25_HybridExtremesMatchPure ==
    (call.pc = "returned" /\ ret.op = "hybrid") =>
       /\ ( /\ call.strategy = "semantic"
            /\ ret.semantic_weight = 1
            /\ \A i, j \in 1..Len(mem.chunks) :
                  i # j => ret.query.emb[i] # ret.query.emb[j] )
             => ResultOrder(ret.results) = ResultOrder(call.results)
       /\ ( /\ call.strategy = "fuzzy"
            /\ ret.semantic_weight = 0
            /\ \A t, u \in TablesOf(mem.chunks) :
                  t # u => ret.query.fuzzy[t] # ret.query.fuzzy[u] )
             => ResultOrder(ret.results) = ResultOrder(call.results)

\* ------------------------------------------ claims on the BM25 ranking

\* C26: the BM25 ranking gives a chunk that holds the query word a score
\* strictly above that of a chunk that does not hold it, and never returns
\* it after such a chunk, whatever the corpus
C26_TermChunkRanksAbove ==
    ret.op = "bm25" =>
       /\ \A i, j \in 1..Len(mem.chunks) :
             (ret.query \in mem.chunks[i].content /\ ret.query \notin mem.chunks[j].content)
                => ret.scores[i] > ret.scores[j]
       /\ \A a, b \in 1..Len(ret.results) :
             ( /\ ret.query \in mem.chunks[ret.results[a].matched[1]].content
               /\ ret.query \notin mem.chunks[ret.results[b].matched[1]].content )
                => a < b


\* ------------------------------------------------ claims on construction

\* C27: an unknown chunking strategy name, an unknown reranking strategy
\* name, or a semantic_weight outside [0, 1] makes the construction fail
\* with an error, before any index or search has run
C27_BadConfigFailsAtConstruction ==
    /\ (ret.op = "create_chunker" /\ ret.strategy \notin {"llm", "raw"})
          => (~ret.ok /\ ret.err # "none")
    /\ (ret.op = "create_ranker" /\ ret.strategy \notin {"cross_encoder", "bm25_hybrid"})
          => (~ret.ok /\ ret.err # "none")
    /\ (ret.op = "hybrid_init" /\ (ret.given < 0 \/ ret.given > 10))
          => (~ret.ok /\ ret.err # "none")
    /\ ret.op \in {"create_chunker", "create_ranker", "hybrid_init"}
          => (gen = 0 /\ call = NoCall /\ mem.embeddings = None)

\* ------------------------------------------- claims on a failed index()

\* the contents of the orchestrator's chunks, in order
ChunkContents == [i \in 1..Len(mem.chunks) |-> mem.chunks[i].content]

\* the texts the embedding rows were encoded from, in order
RowTexts ==
    [i \in 1..Len(mem.embeddings[1].rows) |-> mem.embeddings[1].rows[i].text]

\* what search() tests before it ranks: embeddings and a built BM25 index
SearchPreconditionHolds == mem.embeddings # None /\ mem.bm25 # None

\* C28: when index() has raised partway and search()'s precondition still
\* passes, the orchestrator's schemas, graph, chunks, embeddings and lexical
\* index are of one same index generation: the graph is the one of the held
\* schemas, the embedding rows and the chunk metadata are those of the held
\* chunks, and the BM25 index and the ranker's chunks were built over them
C28_FailedIndexLeavesOneGeneration ==
    (ret.op = "index" /\ ~ret.ok /\ SearchPreconditionHolds) =>
        /\ mem.graph = Some(BuildGraph(mem.metadata_dict))
        /\ RowTexts = ChunkContents
        /\ mem.chunk_metadata = Some([items |-> mem.chunks,
                                      gen |-> mem.embeddings[1].gen])
        /\ mem.bm25 = Some(ChunkContents)
        /\ mem.ranker_chunks = Some(mem.chunks)

====
